---- MODULE Spec2Model ----
(***************************************************************************)
(* A model of the document-structure core of smart-report-format:          *)
(*   - the markdown normalizer passes of services/geminiService.ts and     *)
(*     api/gemini.ts (the two files hold the same three functions),        *)
(*   - extractTextFromPdf of utils/fileProcessors.ts,                      *)
(*   - findTableInContent / smartMapColumns / the table modal of           *)
(*     components/ReportWorkspace.tsx.                                     *)
(*                                                                         *)
(* A JavaScript string is a sequence of one-character strings.  A markdown *)
(* text is the sequence of its lines: content.split('\n') is a bijection   *)
(* between strings and non-empty sequences of newline-free strings, and    *)
(* result.join('\n') is its inverse except that [] joins to '' (= ['']).   *)
(***************************************************************************)
EXTENDS Integers, Sequences, FiniteSets, TLC

VARIABLES
    content,      \* normalizer: the markdown text being processed, as lines
    prevContent,  \* normalizer: the text the last operation was applied to
    lastOp,       \* normalizer: the last operation applied
    applied,      \* normalizer: how many times lastOp has been applied
    matches,      \* normalizer: the detectedVariables analyzePdfStructure returns
    pdfPages,     \* pdf: per page, the text items as pdf.js supplies them
    pageNum,      \* pdf: the loop variable i of extractTextFromPdf
    pageLines,    \* pdf: the array `lines` of the page processed last
    fullText,     \* pdf: the string fullText, as lines
    pdfPc,        \* pdf: "loop" while pages are processed, "done" at the return
    localContent, \* workspace: the editor's markdown, as lines
    gridData,     \* workspace: the data grid, [headers, rows]
    selectedRowIndices, \* workspace: the indices of the selected rows
    tableConfig,  \* workspace: the table modal's configuration
    showTableModal, \* workspace: whether the table modal is open
    detectedVariables, \* workspace: the placeholder names the export modal lists
    variableValues, \* workspace: the export modal's value per placeholder name
    showExportModal, \* workspace: whether the export modal is open
    tables,       \* diagnostics: the array validateTableStructure returned last
    inMemoryApiKey, \* settings: the module variable inMemoryApiKey
    sessionConfig,  \* settings: the sessionStorage item under CONFIG_KEY
    sessionApiKey,  \* settings: the sessionStorage item under API_KEY_KEY
    lastSave,       \* settings: the argument of the last saveLLMSettings call
    llmReturned     \* settings: what getLLMSettings returned last

normVars == <<content, prevContent, lastOp, applied, matches>>
pdfVars  == <<pdfPages, pageNum, pageLines, fullText, pdfPc>>
wsVars   == <<localContent, gridData, selectedRowIndices, tableConfig, showTableModal>>
exportVars == <<detectedVariables, variableValues, showExportModal>>
diagVars == <<tables>>
llmVars  == <<inMemoryApiKey, sessionConfig, sessionApiKey, lastSave, llmReturned>>
vars     == <<normVars, pdfVars, wsVars, exportVars, diagVars, llmVars>>

----------------------------------------------------------------------------
(* Characters and the JavaScript string primitives the code uses.          *)

UpperSeq == <<"A", "B", "C", "D", "E", "F", "G", "H", "I", "J", "K", "L", "M",
              "N", "O", "P", "Q", "R", "S", "T", "U", "V", "W", "X", "Y", "Z">>
LowerSeq == <<"a", "b", "c", "d", "e", "f", "g", "h", "i", "j", "k", "l", "m",
              "n", "o", "p", "q", "r", "s", "t", "u", "v", "w", "x", "y", "z">>
UpperLetters == {UpperSeq[i] : i \in DOMAIN UpperSeq}
LowerLetters == {LowerSeq[i] : i \in DOMAIN LowerSeq}
Digits == {"0", "1", "2", "3", "4", "5", "6", "7", "8", "9"}
\* \s of a regular expression, and what trim() strips
WhiteSpace == {" ", "\t"}
\* \w of a regular expression
WordChars == UpperLetters \cup LowerLetters \cup Digits \cup {"_"}

Range(f) == {f[i] : i \in DOMAIN f}

SetMin(S) == CHOOSE m \in S : \A n \in S : m <= n

\* String.prototype.toLowerCase, one character
LowerChar(c) ==
    IF c \in UpperLetters
    THEN LowerSeq[CHOOSE i \in DOMAIN UpperSeq : UpperSeq[i] = c]
    ELSE c

toLowerCase(s) == [i \in 1..Len(s) |-> LowerChar(s[i])]

RECURSIVE runEnd(_, _, _)
\* the index after the maximal run of characters of S that starts at i
runEnd(s, i, S) ==
    IF i > Len(s) \/ s[i] \notin S THEN i ELSE runEnd(s, i + 1, S)

RECURSIVE runStart(_, _, _)
\* the index before the maximal run of characters of S that ends at i
runStart(s, i, S) ==
    IF i < 1 \/ s[i] \notin S THEN i ELSE runStart(s, i - 1, S)

\* String.prototype.trim
trim(s) == SubSeq(s, runEnd(s, 1, WhiteSpace), runStart(s, Len(s), WhiteSpace))

\* s with its leading whitespace removed (greedy blanks of a regular expression)
trimStart(s) == SubSeq(s, runEnd(s, 1, WhiteSpace), Len(s))

\* the leading whitespace of s
leadingSpace(s) == SubSeq(s, 1, runEnd(s, 1, WhiteSpace) - 1)

startsWith(s, p) == Len(s) >= Len(p) /\ SubSeq(s, 1, Len(p)) = p
endsWith(s, p) == Len(s) >= Len(p) /\ SubSeq(s, Len(s) - Len(p) + 1, Len(s)) = p
\* s has p at position i (1-based)
hasAt(s, i, p) == i + Len(p) - 1 <= Len(s) /\ SubSeq(s, i, i + Len(p) - 1) = p
includes(s, p) == \E i \in 1..(Len(s) + 1) : hasAt(s, i, p)

\* s.split(/\s+/).length: one more than the number of maximal whitespace runs
splitWsLength(s) ==
    1 + Cardinality({i \in 1..Len(s) :
                        s[i] \in WhiteSpace /\ (i = 1 \/ s[i - 1] \notin WhiteSpace)})

\* result.join('\n') followed by split('\n') at the next reader
joinSplit(result) == IF result = <<>> THEN << <<>> >> ELSE result

----------------------------------------------------------------------------
(* removeRedundantTableHeaders                                             *)

\* the alternatives of /\b(NO\.?|Weight|INCI|Name|CAS|Ingredient)\b/gi, lower-cased
kwNo == <<"n", "o">>
ColumnWords == {kwNo,
                <<"w", "e", "i", "g", "h", "t">>,
                <<"i", "n", "c", "i">>,
                <<"n", "a", "m", "e">>,
                <<"c", "a", "s">>,
                <<"i", "n", "g", "r", "e", "d", "i", "e", "n", "t">>}

\* \b between positions i-1 and i of s
wordBoundary(s, i) ==
    LET before == i > 1 /\ i - 1 <= Len(s) /\ s[i - 1] \in WordChars
        after  == i >= 1 /\ i <= Len(s) /\ s[i] \in WordChars
    IN  before # after

\* the length of the match of the column-word expression that starts at i, 0 if none
columnWordAt(s, i) ==
    LET fits(k) == hasAt(toLowerCase(s), i, k)
        plain == {k \in ColumnWords : fits(k) /\ wordBoundary(s, i + Len(k))}
    IN  IF ~wordBoundary(s, i) THEN 0
        ELSE IF fits(kwNo) /\ hasAt(s, i + 2, <<".">>) /\ wordBoundary(s, i + 3) THEN 3
        ELSE IF plain # {} THEN Len(CHOOSE k \in plain : TRUE)
        ELSE 0

RECURSIVE columnWordCount(_, _)
\* (trimmed.match(/.../gi) || []).length, scanning from position i
columnWordCount(s, i) ==
    IF i > Len(s) THEN 0
    ELSE LET n == columnWordAt(s, i)
         IN  IF n > 0 THEN 1 + columnWordCount(s, i + n)
             ELSE columnWordCount(s, i + 1)

\* /^[A-Z0-9\s.%():-]+$/
isAllUpperOrPunct(s) ==
    /\ Len(s) > 0
    /\ \A i \in 1..Len(s) :
          s[i] \in UpperLetters \cup Digits \cup WhiteSpace \cup {".", "%", "(", ")", ":", "-"}

MaxHeaderWords == 8

\* the condition without the test of the characters
looksLikeHeaderInAnyCase(trimmed) ==
    /\ columnWordCount(trimmed, 1) >= 1
    /\ columnWordCount(trimmed, 1) >= 2
    /\ splitWsLength(trimmed) <= MaxHeaderWords
    /\ ~includes(trimmed, <<"|">>)

\* the condition of the innermost if: hasMultipleColumnWords, matchCount,
\* wordCount, no pipe, isAllUpperOrPunct
looksLikeHeader(trimmed) ==
    /\ columnWordCount(trimmed, 1) >= 1
    /\ columnWordCount(trimmed, 1) >= 2
    /\ splitWsLength(trimmed) <= MaxHeaderWords
    /\ ~includes(trimmed, <<"|">>)
    /\ isAllUpperOrPunct(trimmed)

\* the condition under which the loop skips lines[i]
isRedundantHeader(lines, i) ==
    LET trimmed  == trim(lines[i])
        nextLine == IF i + 1 <= Len(lines) THEN trim(lines[i + 1]) ELSE <<>>
    IN  /\ ~startsWith(trimmed, <<"|">>)
        /\ ~(startsWith(trimmed, <<"#">>) \/ startsWith(trimmed, <<"*", "*">>) \/ trimmed = <<>>)
        /\ startsWith(nextLine, <<"|">>)
        /\ looksLikeHeader(trimmed)

RECURSIVE removeFromOffByOne(_, _)
\* the loop with the wrong index skipped: the line after the redundant header
removeFromOffByOne(lines, i) ==
    IF i > Len(lines) THEN <<>>
    ELSE (IF i > 1 /\ isRedundantHeader(lines, i - 1) THEN <<>> ELSE <<lines[i]>>)
         \o removeFromOffByOne(lines, i + 1)

RECURSIVE removeFrom(_, _)
\* the loop from lines[i] on
removeFrom(lines, i) ==
    IF i > Len(lines) THEN <<>>
    ELSE (IF isRedundantHeader(lines, i) THEN <<>> ELSE <<lines[i]>>)
         \o removeFrom(lines, i + 1)

removeRedundantTableHeaders(lines) == joinSplit(removeFrom(lines, 1))

----------------------------------------------------------------------------
(* normalizeSectionFormatting                                              *)

kwSection == <<"S", "e", "c", "t", "i", "o", "n">>

\* /^##\s+Section\s+\d+/ : the index of the last digit of the longest match, 0 if none
sectionHeadEnd(s) ==
    LET p1 == runEnd(s, 3, WhiteSpace)
        p2 == runEnd(s, p1 + Len(kwSection), WhiteSpace)
        p3 == runEnd(s, p2, Digits)
    IN  IF /\ startsWith(s, <<"#", "#">>)
           /\ p1 > 3
           /\ hasAt(s, p1, kwSection)
           /\ p2 > p1 + Len(kwSection)
           /\ p3 > p2
        THEN p3 - 1 ELSE 0

\* /^\s+[A-Z][a-z]+:/ matches s from position k on
subLabelAhead(s, k) ==
    LET m == runEnd(s, k, WhiteSpace)
        n == runEnd(s, m + 1, LowerLetters)
    IN  /\ m > k
        /\ m <= Len(s)
        /\ s[m] \in UpperLetters
        /\ n > m + 1
        /\ n <= Len(s)
        /\ s[n] = ":"

\* the index of the first ':' of s, 0 if none
firstColon(s) ==
    LET at == {i \in 1..Len(s) : s[i] = ":"}
    IN  IF at = {} THEN 0 ELSE SetMin(at)

\* The heading-with-trailing-content expression (group 1: ##, blanks, Section,
\* blanks, \d+, [^:]+? ; group 2: blanks, [A-Z][a-z]+, a colon, the rest of the
\* line): the length of group 1, 0 if no match.  \d+ is greedy and [^:]+? lazy: with all the digits taken, the shortest
\* colon-free extension that a sub-label follows; failing that, with the last digit
\* given back to [^:]+?, the heading ends at its last digit.
sectionSplitPoint(s) ==
    LET d    == sectionHeadEnd(s)
        tail == SubSeq(s, d + 1, Len(s))
        lim  == IF firstColon(tail) = 0 THEN Len(s) ELSE d + firstColon(tail) - 1
        late == {j \in (d + 1)..lim : subLabelAhead(s, j + 1)}
    IN  IF d = 0 THEN 0
        ELSE IF late # {} THEN SetMin(late)
        ELSE IF s[d - 1] \in Digits /\ subLabelAhead(s, d + 1) THEN d
        ELSE 0

\* what the group .+ after greedy blanks captures from the text after a colon;
\* <<>> when it cannot match.  The blanks give back one character when the rest
\* is all whitespace.
restValue(after) ==
    IF after = <<>> THEN <<>>
    ELSE IF trimStart(after) = <<>> THEN <<after[Len(after)]>>
    ELSE trimStart(after)

boldLabel(label) == <<"*", "*">> \o label \o <<":", "*", "*">>

\* the lines the loop pushes for a heading line /^##\s+Section\s+\d+/
splitSectionHeading(line) ==
    LET trimmed == trim(line)
        j       == sectionSplitPoint(trimmed)
        rest    == trim(SubSeq(trimmed, j + 1, Len(trimmed)))
        c       == firstColon(rest)
        value   == restValue(SubSeq(rest, c + 1, Len(rest)))
    IN  IF j = 0 THEN <<line>>
        ELSE <<SubSeq(trimmed, 1, j), <<>>>>
             \o (IF value # <<>>
                 THEN <<boldLabel(SubSeq(rest, 1, c - 1)), value>>
                 ELSE <<rest>>)

\* the sub-label tokens of the standalone sub-label expression
SubLabels ==
    {<<"H", "a", "n", "d", "l", "i", "n", "g">>,
     <<"S", "t", "o", "r", "a", "g", "e">>,
     <<"A", "p", "p", "e", "a", "r", "a", "n", "c", "e">>,
     <<"O", "d", "o", "r">>,
     <<"p", "H">>,
     <<"B", "o", "i", "l", "i", "n", "g">>,
     <<"M", "e", "l", "t", "i", "n", "g">>,
     <<"F", "l", "a", "s", "h">>,
     <<"V", "a", "p", "o", "r">>,
     <<"R", "e", "l", "a", "t", "i", "v", "e">>,
     <<"S", "o", "l", "u", "b", "i", "l", "i", "t", "y">>,
     <<"A", "u", "t", "o", "-", "i", "g", "n", "i", "t", "i", "o", "n">>,
     <<"D", "e", "c", "o", "m", "p", "o", "s", "i", "t", "i", "o", "n">>,
     <<"V", "i", "s", "c", "o", "s", "i", "t", "y">>,
     <<"M", "o", "l", "e", "c", "u", "l", "a", "r">>}

isSubLabelLine(trimmed) == \E l \in SubLabels : startsWith(trimmed, l \o <<":">>)

\* the lines the loop pushes for an unbolded sub-label line; the label group
\* [A-Za-z\s-]+ is the text before the first colon, the content what follows
\* the colon and the blanks after it
splitSubLabel(line) ==
    LET trimmed == trim(line)
        c       == firstColon(trimmed)
        value   == trimStart(SubSeq(trimmed, c + 1, Len(trimmed)))
    IN  <<boldLabel(SubSeq(trimmed, 1, c - 1))>>
        \o (IF value # <<>> THEN <<value>> ELSE <<>>)

\* the lines one iteration of the loop pushes for `line`
sectionLine(line) ==
    IF sectionHeadEnd(trim(line)) > 0 THEN splitSectionHeading(line)
    ELSE IF isSubLabelLine(trim(line)) THEN splitSubLabel(line)
    ELSE <<line>>

RECURSIVE sectionFrom(_, _)
sectionFrom(lines, i) ==
    IF i > Len(lines) THEN <<>>
    ELSE sectionLine(lines[i]) \o sectionFrom(lines, i + 1)

normalizeSectionFormatting(lines) == joinSplit(sectionFrom(lines, 1))

----------------------------------------------------------------------------
(* normalizeKeyValueBolding                                                *)

\* a character SANY's strings cannot hold is named by its code point
fence == <<"U+0060", "U+0060", "U+0060">>

\* two stars, one or more non-stars, two stars, blanks, a colon, at the start
isBoldedLabel(s) ==
    LET r == runEnd(s, 3, {s[i] : i \in 1..Len(s)} \ {"*"})
        q == runEnd(s, r + 2, WhiteSpace)
    IN  /\ startsWith(s, <<"*", "*">>)
        /\ r > 3
        /\ hasAt(s, r, <<"*", "*">>)
        /\ q <= Len(s)
        /\ s[q] = ":"

\* /https?:\/\//
hasUrl(s) == includes(s, <<"h", "t", "t", "p", ":", "/", "/">>) \/ includes(s, <<"h", "t", "t", "p", "s", ":", "/", "/">>)

\* the class [A-Za-z0-9\s\-_&,./()] of the label
LabelChars == UpperLetters \cup LowerLetters \cup Digits \cup WhiteSpace
              \cup {"-", "_", "&", ",", ".", "/", "(", ")"}

\* the label is one letter followed by at most 50 characters of the class
MaxLabelTail == 50
MaxLabelWords == 5

\* The match of the "Label: Value" expression on the line (indent, a lazy label
\* of one letter and up to 50 class characters, blanks, a colon, blanks, a value
\* of at least one character up to the end of the line): the groups
\* [indent, label, value], or <<>> if the line does not match.  The class holds
\* no colon, so the label and the blanks after it end at the first colon; the
\* label is lazy, so it stops at the last non-blank character before the colon.
keyValueMatch(line) ==
    LET indent == leadingSpace(line)
        body   == SubSeq(line, Len(indent) + 1, Len(line))
        c      == firstColon(body)
        before == SubSeq(body, 1, c - 1)
        label  == trim(before)
        value  == restValue(SubSeq(body, c + 1, Len(body)))
    IN  IF /\ c > 1
           /\ body[1] \in UpperLetters \cup LowerLetters
           /\ \A i \in 1..Len(before) : before[i] \in LabelChars
           /\ Len(label) <= 1 + MaxLabelTail
           /\ value # <<>>
        THEN <<indent, label, value>>
        ELSE <<>>

\* the rewrite with the bold markers around the value instead of the label
boldKeyValueAroundValue(line) ==
    LET m == keyValueMatch(line)
    IN  IF /\ ~isBoldedLabel(trim(line))
           /\ ~hasUrl(line)
           /\ m # <<>>
           /\ splitWsLength(trim(m[2])) <= MaxLabelWords
        THEN m[1] \o trim(m[2]) \o <<":", " ", "*", "*">> \o m[3] \o <<"*", "*">>
        ELSE line

\* the line pushed for a line outside tables, code and headings
boldKeyValue(line) ==
    LET m == keyValueMatch(line)
    IN  IF /\ ~isBoldedLabel(trim(line))
           /\ ~hasUrl(line)
           /\ m # <<>>
           /\ splitWsLength(trim(m[2])) <= MaxLabelWords
        THEN m[1] \o <<"*", "*">> \o trim(m[2]) \o <<"*", "*", ":", " ">> \o m[3]
        ELSE line

RECURSIVE keyValueFromTableNeverEnds(_, _, _, _)
\* the loop without the else-if that clears inTable at a blank line
keyValueFromTableNeverEnds(lines, i, inTable, inCodeBlock) ==
    IF i > Len(lines) THEN <<>>
    ELSE LET line == lines[i]
             t    == trim(line)
         IN  IF startsWith(t, fence)
             THEN <<line>> \o keyValueFromTableNeverEnds(lines, i + 1, inTable, ~inCodeBlock)
             ELSE IF inCodeBlock
             THEN <<line>> \o keyValueFromTableNeverEnds(lines, i + 1, inTable, inCodeBlock)
             ELSE IF startsWith(t, <<"|">>)
             THEN <<line>> \o keyValueFromTableNeverEnds(lines, i + 1, TRUE, inCodeBlock)
             ELSE IF inTable
             THEN <<line>> \o keyValueFromTableNeverEnds(lines, i + 1, inTable, inCodeBlock)
             ELSE IF startsWith(t, <<"#">>)
             THEN <<line>> \o keyValueFromTableNeverEnds(lines, i + 1, FALSE, inCodeBlock)
             ELSE <<boldKeyValue(line)>>
                  \o keyValueFromTableNeverEnds(lines, i + 1, FALSE, inCodeBlock)

RECURSIVE keyValueFrom(_, _, _, _)
\* the loop from lines[i] on, with the loop's two flags
keyValueFrom(lines, i, inTable, inCodeBlock) ==
    IF i > Len(lines) THEN <<>>
    ELSE LET line == lines[i]
             t    == trim(line)
         IN  IF startsWith(t, fence)
             THEN <<line>> \o keyValueFrom(lines, i + 1, inTable, ~inCodeBlock)
             ELSE IF inCodeBlock
             THEN <<line>> \o keyValueFrom(lines, i + 1, inTable, inCodeBlock)
             ELSE IF startsWith(t, <<"|">>)
             THEN <<line>> \o keyValueFrom(lines, i + 1, TRUE, inCodeBlock)
             ELSE IF inTable /\ t # <<>>
             THEN <<line>> \o keyValueFrom(lines, i + 1, inTable, inCodeBlock)
             ELSE IF startsWith(t, <<"#">>)
             THEN <<line>> \o keyValueFrom(lines, i + 1, FALSE, inCodeBlock)
             ELSE <<boldKeyValue(line)>> \o keyValueFrom(lines, i + 1, FALSE, inCodeBlock)

normalizeKeyValueBolding(lines) == joinSplit(keyValueFrom(lines, 1, FALSE, FALSE))

RECURSIVE joinLines(_)
\* the string the lines are the split('\n') of: the lines joined by newlines
joinLines(lines) ==
    IF Len(lines) = 1 THEN lines[1]
    ELSE lines[1] \o <<"\n">> \o joinLines(Tail(lines))

\* the index of the closing braces of a match of /\{\{([^}]+)\}\}/ that starts
\* at index i of s, or 0 when there is no match at i
matchEnd(s, i) ==
    LET e == runEnd(s, i + 2, Range(s) \ {"}"})
    IN  IF hasAt(s, i, <<"{", "{">>) /\ e > i + 2 /\ hasAt(s, e, <<"}", "}">>)
        THEN e ELSE 0

RECURSIVE scanVariablesKeepingLast(_, _, _)
\* the loop with a name seen again moved to the end of the list
scanVariablesKeepingLast(s, p, found) ==
    LET starts == {i \in p..Len(s) : matchEnd(s, i) # 0}
    IN  IF starts = {} THEN found
        ELSE LET i == SetMin(starts)
                 name == SubSeq(s, i + 2, matchEnd(s, i) - 1)
                 isOther(n) == n # name
             IN  scanVariablesKeepingLast(s, matchEnd(s, i) + 2,
                                          Append(SelectSeq(found, isOther), name))

RECURSIVE scanVariables(_, _, _)
\* the loop of regex.exec with lastIndex p - 1 (two opening braces, one or
\* more characters other than a closing brace, two closing braces): the
\* leftmost match from p on adds its name to the Set matches, held as the
\* list of its elements in insertion order
scanVariables(s, p, found) ==
    LET starts == {i \in p..Len(s) : matchEnd(s, i) # 0}
    IN  IF starts = {} THEN found
        ELSE LET i == SetMin(starts)
                 name == SubSeq(s, i + 2, matchEnd(s, i) - 1)
             IN  scanVariables(s, matchEnd(s, i) + 2,
                               IF name \in Range(found) THEN found ELSE Append(found, name))

\* Array.from(matches) after the loop
detectVariables(s) == scanVariables(s, 1, <<>>)

\* the three passes in the order analyzePdfStructure and the handler apply them
Normalize(lines) ==
    normalizeKeyValueBolding(normalizeSectionFormatting(removeRedundantTableHeaders(lines)))

----------------------------------------------------------------------------
(* The normalizer as a state machine: a markdown text as the oracle may    *)
(* return it, and the passes applied to it, singly or as the pipeline.     *)

\* the empty line
lnBlank == <<>>
\* NO. CAS
lnLooseHeader == <<"N", "O", ".", " ", "C", "A", "S">>
\* | NO. | CAS |
lnTableHeader ==
    <<"|", " ", "N", "O", ".", " ", "|", " ", "C", "A", "S", " ", "|">>
\* Handling: Keep cool
lnHandling ==
    <<"H", "a", "n", "d", "l", "i", "n", "g", ":", " ", "K", "e", "e", "p",
      " ", "c", "o", "o", "l">>
\* Handling: Storage: dry
lnNested ==
    <<"H", "a", "n", "d", "l", "i", "n", "g", ":", " ", "S", "t", "o", "r",
      "a", "g", "e", ":", " ", "d", "r", "y">>
\* ## Section 7 - Use Handling: Keep cool
lnSection ==
    <<"#", "#", " ", "S", "e", "c", "t", "i", "o", "n", " ", "7", " ", "-",
      " ", "U", "s", "e", " ", "H", "a", "n", "d", "l", "i", "n", "g", ":",
      " ", "K", "e", "e", "p", " ", "c", "o", "o", "l">>
\* ```
lnFence == <<"U+0060", "U+0060", "U+0060">>
\* ```js
lnFenceJs == <<"U+0060", "U+0060", "U+0060", "j", "s">>
\* Note: see https://x.io
lnUrl ==
    <<"N", "o", "t", "e", ":", " ", "s", "e", "e", " ", "h", "t", "t", "p",
      "s", ":", "/", "/", "x", ".", "i", "o">>
\* This is a long descriptive sentence: see below
lnSentence ==
    <<"T", "h", "i", "s", " ", "i", "s", " ", "a", " ", "l", "o", "n", "g",
      " ", "d", "e", "s", "c", "r", "i", "p", "t", "i", "v", "e", " ", "s",
      "e", "n", "t", "e", "n", "c", "e", ":", " ", "s", "e", "e", " ", "b",
      "e", "l", "o", "w">>
\*   Odor: {{Odor}}
lnOdor ==
    <<" ", " ", "O", "d", "o", "r", ":", " ", "{", "{", "O", "d", "o", "r",
      "}", "}">>
\* Name: {{ProductName}}
lnName ==
    <<"N", "a", "m", "e", ":", " ", "{", "{", "P", "r", "o", "d", "u", "c",
      "t", "N", "a", "m", "e", "}", "}">>

NormLines == {lnBlank, lnLooseHeader, lnTableHeader, lnHandling, lnNested,
              lnSection, lnFence, lnFenceJs, lnUrl, lnSentence, lnOdor, lnName}

MaxLines == 3
MaxApplications == 2

Documents == UNION {[1..n -> NormLines] : n \in 1..MaxLines}

PdfIdle ==
    /\ pdfPages = <<>>
    /\ pageNum = 1
    /\ pageLines = <<>>
    /\ fullText = << <<>> >>
    /\ pdfPc = "idle"

\* null, and the absence of a stored item
Null == [null |-> TRUE]

DiagIdle == tables = <<>>

LlmIdle ==
    /\ inMemoryApiKey = <<>>
    /\ sessionConfig = Null
    /\ sessionApiKey = Null
    /\ lastSave = Null
    /\ llmReturned = Null

ExportIdle ==
    /\ detectedVariables = <<>>
    /\ variableValues = <<>>
    /\ showExportModal = FALSE

WsIdle ==
    /\ localContent = << <<>> >>
    /\ gridData = [headers |-> <<>>, rows |-> <<>>]
    /\ selectedRowIndices = {}
    /\ tableConfig = [mode |-> "idle"]
    /\ showTableModal = FALSE
    /\ ExportIdle
    /\ DiagIdle
    /\ LlmIdle

InitNorm ==
    /\ content \in Documents
    /\ prevContent = content
    /\ lastOp = "none"
    /\ applied = 0
    /\ matches = <<>>
    /\ PdfIdle
    /\ WsIdle

\* One function of the normalizer applied to the text.  A run takes a text as
\* the oracle returned it and applies one function to it, and then the same
\* function to its own result.
Apply(op, result, detected) ==
    /\ applied < MaxApplications
    /\ lastOp \in {"none", op}
    /\ content' = result
    /\ prevContent' = content
    /\ lastOp' = op
    /\ applied' = applied + 1
    /\ matches' = detected
    /\ UNCHANGED <<pdfVars, wsVars, exportVars, diagVars, llmVars>>

RemoveRedundantTableHeaders ==
    Apply("removeRedundantTableHeaders", removeRedundantTableHeaders(content), matches)

NormalizeSectionFormatting ==
    Apply("normalizeSectionFormatting", normalizeSectionFormatting(content), matches)

NormalizeKeyValueBolding ==
    Apply("normalizeKeyValueBolding", normalizeKeyValueBolding(content), matches)

\* analyzePdfStructure / the handler: the oracle's text through the pipeline,
\* and the variables detected in the result
AnalyzePdfStructure ==
    Apply("analyzePdfStructure", Normalize(content),
          detectVariables(joinLines(Normalize(content))))

NextNorm ==
    \/ RemoveRedundantTableHeaders
    \/ NormalizeSectionFormatting
    \/ NormalizeKeyValueBolding
    \/ AnalyzePdfStructure

SpecNorm == InitNorm /\ [][NextNorm]_vars

----------------------------------------------------------------------------
(* Properties of the normalizer, checked under SpecNorm.                   *)

RECURSIVE IsSubseq(_, _)
\* a is b with some elements left out
IsSubseq(a, b) ==
    IF a = <<>> THEN TRUE
    ELSE IF b = <<>> THEN FALSE
    ELSE IF Head(a) = Head(b) THEN IsSubseq(Tail(a), Tail(b))
    ELSE IsSubseq(a, Tail(b))

beginsWithPipe(line) == startsWith(line, <<"|">>)

\* the lines of a text that begin with '|', in order
TableRows(lines) == SelectSeq(lines, beginsWithPipe)

\* C1: the pipeline applied to its own output changes nothing:
\* Normalize(Normalize(x)) = Normalize(x).
C1_PipelineIdempotent ==
    (lastOp = "analyzePdfStructure" /\ applied >= 2) => content = prevContent

\* C2: removeRedundantTableHeaders applied to its own output changes nothing.
C2_RemoverIdempotent ==
    (lastOp = "removeRedundantTableHeaders" /\ applied >= 2) => content = prevContent

\* C3: normalizeSectionFormatting applied to its own output changes nothing; the
\* content line emitted after a bolded sub-label is not split again.
C3_SectionSplitterIdempotent ==
    (lastOp = "normalizeSectionFormatting" /\ applied >= 2) => content = prevContent

\* C4: normalizeKeyValueBolding applied to its own output changes nothing; a line
\* rewritten to '**Label**: Value' is not rewritten again.
C4_KeyValueBolderIdempotent ==
    (lastOp = "normalizeKeyValueBolding" /\ applied >= 2) => content = prevContent

\* **Handling**: Keep cool
boldedHandling ==
    <<"*", "*", "H", "a", "n", "d", "l", "i", "n", "g", "*", "*", ":", " ",
      "K", "e", "e", "p", " ", "c", "o", "o", "l">>

\* C4 witness: the pass has run on its own output, which holds a line it rewrote
C4_Witness ==
    /\ lastOp = "normalizeKeyValueBolding"
    /\ applied >= 2
    /\ \E i \in DOMAIN content : content[i] = boldedHandling

C15_PipelineBoldsHandlingInPlace ==
    (lastOp = "analyzePdfStructure" /\ applied = 1 /\ prevContent = <<lnHandling>>)
        => content = <<boldedHandling>>

\* the line marks a code fence: as the claim words it, the line is exactly the
\* fence marker; else, the line begins with the fence marker
isFenceLine(line, asWorded) ==
    IF asWorded THEN trim(line) = fence ELSE startsWith(trim(line), fence)

\* an odd number of fence lines lies above line i
insideFence(lines, i, asWorded) ==
    Cardinality({j \in 1..(i - 1) : isFenceLine(lines[j], asWorded)}) % 2 = 1

\* line j takes part in the table regions: as the claim words it, every line
\* does; else, the lines that are neither fence lines nor inside a fence
marksTable(lines, j, asWorded) ==
    asWorded \/ (~isFenceLine(lines[j], FALSE) /\ ~insideFence(lines, j, FALSE))

\* line i lies in a table region: a line above it starts with '|' and no
\* blank line lies between the two
insideTable(lines, i, asWorded) ==
    \E j \in 1..(i - 1) :
        /\ marksTable(lines, j, asWorded)
        /\ startsWith(trim(lines[j]), <<"|">>)
        /\ \A k \in (j + 1)..(i - 1) :
               ~(marksTable(lines, k, asWorded) /\ trim(lines[k]) = <<>>)

\* the number of words of a label
wordsOf(label) ==
    Cardinality({i \in 1..Len(label) :
                    label[i] \notin WhiteSpace /\ (i = 1 \/ label[i - 1] \in WhiteSpace)})

\* the line has the form 'Label: Value': after its indentation, a label that
\* starts with a letter, holds label characters only and is at most 51
\* characters long, then the line's first colon, then a value
hasLabelValueForm(line) ==
    LET body  == trimStart(line)
        c     == firstColon(body)
        label == trim(SubSeq(body, 1, c - 1))
    IN  /\ c > 1
        /\ body[1] \in UpperLetters \cup LowerLetters
        /\ \A i \in 1..(c - 1) : body[i] \in LabelChars
        /\ Len(label) <= 1 + MaxLabelTail
        /\ c < Len(body)

\* the line may be rewritten wherever it stands
isPlainKeyValue(line) ==
    /\ hasLabelValueForm(line)
    /\ wordsOf(trim(SubSeq(trimStart(line), 1, firstColon(trimStart(line)) - 1)))
           <= MaxLabelWords
    /\ ~startsWith(trim(line), <<"*", "*">>)
    /\ ~startsWith(trim(line), <<"#">>)
    /\ ~includes(line, <<"h", "t", "t", "p", ":", "/", "/">>)
    /\ ~includes(line, <<"h", "t", "t", "p", "s", ":", "/", "/">>)

\* indentation, **Label**, a colon, a blank, the value
asBoldedKeyValue(line) ==
    LET body  == trimStart(line)
        c     == firstColon(body)
        after == SubSeq(body, c + 1, Len(body))
    IN  leadingSpace(line) \o <<"*", "*">> \o trim(SubSeq(body, 1, c - 1))
            \o <<"*", "*", ":", " ">>
            \o (IF trimStart(after) = <<>> THEN <<after[Len(after)]>> ELSE trimStart(after))

\* the text with exactly the plain key-value lines outside the table and
\* fence regions rewritten
withLabelsBolded(lines, asWorded) ==
    [i \in 1..Len(lines) |->
        IF /\ isPlainKeyValue(lines[i])
           /\ ~isFenceLine(lines[i], asWorded)
           /\ ~insideFence(lines, i, asWorded)
           /\ ~insideTable(lines, i, asWorded)
        THEN asBoldedKeyValue(lines[i])
        ELSE lines[i]]

\* C14, as worded: normalizeKeyValueBolding rewrites exactly the 'Label: Value'
\* lines of at most 5 label words that are not bolded, not headings, hold no
\* URL and lie outside the table regions (from a line starting with '|' to
\* the next blank line) and the fence regions (toggled by each line that is
\* exactly a fence marker); every other line is unchanged
C14_BoldsExactlyPlainKeyValueLines_AsWorded ==
    lastOp = "normalizeKeyValueBolding" => content = withLabelsBolded(prevContent, TRUE)

\* C14, amended: the same, with the fence regions toggled by each line that
\* begins with a fence marker, and the table regions begun and ended only by
\* lines outside the fence regions
C14_BoldsExactlyPlainKeyValueLines ==
    lastOp = "normalizeKeyValueBolding" => content = withLabelsBolded(prevContent, FALSE)

\* a {{Name}} token starts at index i of s
tokenAt(s, i) ==
    /\ i + 1 <= Len(s) /\ s[i] = "{" /\ s[i + 1] = "{"
    /\ \E e \in (i + 3)..(Len(s) - 1) :
          /\ s[e] = "}" /\ s[e + 1] = "}"
          /\ \A k \in (i + 2)..(e - 1) : s[k] # "}"

\* the name of the token that starts at index i of s
nameAt(s, i) ==
    LET close == SetMin({e \in (i + 2)..Len(s) : s[e] = "}"})
    IN  SubSeq(s, i + 2, close - 1)

\* the index at which the name first occurs in a token of s
firstOccurrence(s, name) == SetMin({i \in 1..Len(s) : tokenAt(s, i) /\ nameAt(s, i) = name})

\* C16: the detected variables are the names of the {{Name}} tokens of the
\* normalized content, each once, in the order of their first occurrence
C16_DetectedVariablesInFirstSeenOrder ==
    lastOp = "analyzePdfStructure" =>
        LET s == joinLines(content)
        IN  /\ Range(matches) = {nameAt(s, i) : i \in {j \in 1..Len(s) : tokenAt(s, j)}}
            /\ \A k, l \in DOMAIN matches :
                   k < l => firstOccurrence(s, matches[k]) < firstOccurrence(s, matches[l])

\* C16 witness: two names are detected and one of them occurs twice
C16_Witness ==
    /\ lastOp = "analyzePdfStructure"
    /\ Len(matches) = 2
    /\ LET s == joinLines(content)
       IN  Cardinality({j \in 1..Len(s) : tokenAt(s, j)}) = 3

\* C14 witness: of two lines "Handling: Keep cool" the pass rewrote one and
\* kept the other, which lies behind a fence line with a language tag
C14_Witness ==
    /\ lastOp = "normalizeKeyValueBolding"
    /\ \E i, j, k \in DOMAIN prevContent :
          /\ i < j /\ j < k
          /\ prevContent[i] = lnHandling /\ content[i] = boldedHandling
          /\ prevContent[j] = lnFenceJs
          /\ prevContent[k] = lnHandling /\ content[k] = lnHandling

----------------------------------------------------------------------------
(* The normalizer on the texts of the examples.                            *)

\* NO. INCI Name CAS NO. Weight
lnExample3Loose ==
    <<"N", "O", ".", " ", "I", "N", "C", "I", " ", "N", "a", "m", "e", " ",
      "C", "A", "S", " ", "N", "O", ".", " ", "W", "e", "i", "g", "h", "t">>
\* NO. INCI NAME CAS NO. WEIGHT
lnExample3Upper ==
    <<"N", "O", ".", " ", "I", "N", "C", "I", " ", "N", "A", "M", "E", " ",
      "C", "A", "S", " ", "N", "O", ".", " ", "W", "E", "I", "G", "H", "T">>
\* | NO. | INCI Name | CAS NO. | Weight |
lnTable4Header ==
    <<"|", " ", "N", "O", ".", " ", "|", " ", "I", "N", "C", "I", " ", "N",
      "a", "m", "e", " ", "|", " ", "C", "A", "S", " ", "N", "O", ".", " ",
      "|", " ", "W", "e", "i", "g", "h", "t", " ", "|">>
\* | --- | --- | --- | --- |
lnTable4Separator ==
    <<"|", " ", "-", "-", "-", " ", "|", " ", "-", "-", "-", " ", "|", " ",
      "-", "-", "-", " ", "|", " ", "-", "-", "-", " ", "|">>
\* | 1 | Aqua | 7732-18-5 | 70 |
lnTable4Row ==
    <<"|", " ", "1", " ", "|", " ", "A", "q", "u", "a", " ", "|", " ", "7",
      "7", "3", "2", "-", "1", "8", "-", "5", " ", "|", " ", "7", "0", " ",
      "|">>

\* the 4-column table of Example 3
Table4 == <<lnTable4Header, lnTable4Separator, lnTable4Row>>

\* Example 3: the loose line directly before the table
Example3Document == <<lnExample3Loose>> \o Table4

\* a section heading with a placeholder: ## Section 1 {{Batch Code: 7}}
lnSectionVariable ==
    <<"#", "#", " ", "S", "e", "c", "t", "i", "o", "n", " ", "1", " ", "{",
      "{", "B", "a", "t", "c", "h", " ", "C", "o", "d", "e", ":", " ", "7",
      "}", "}">>

\* CAS NO. 7732-18-5
lnCasData ==
    <<"C", "A", "S", " ", "N", "O", ".", " ", "7", "7", "3", "2", "-", "1",
      "8", "-", "5">>

\* CAS 50-00-0
lnOneKeyword == <<"C", "A", "S", " ", "5", "0", "-", "0", "0", "-", "0">>

\* NO. | CAS
lnPipeInside == <<"N", "O", ".", " ", "|", " ", "C", "A", "S">>

\* NO. CAS 1 2 3 4 5 6 7
lnNineWords ==
    <<"N", "O", ".", " ", "C", "A", "S", " ", "1", " ", "2", " ", "3", " ",
      "4", " ", "5", " ", "6", " ", "7">>

\* NO. CAS 1 2 3 4 5 6
lnEightWords ==
    <<"N", "O", ".", " ", "C", "A", "S", " ", "1", " ", "2", " ", "3", " ",
      "4", " ", "5", " ", "6">>

\*   NO. CAS 
lnIndentedLoose == <<" ", " ", "N", "O", ".", " ", "C", "A", "S", " ">>

\*   | NO. | CAS |
lnIndentedTableHeader ==
    <<" ", " ", "|", " ", "N", "O", ".", " ", "|", " ", "C", "A", "S", " ",
      "|">>

\* **NO. CAS**
lnBoldKeywords == <<"*", "*", "N", "O", ".", " ", "C", "A", "S", "*", "*">>

\* # NO. CAS
lnHeadingKeywords == <<"#", " ", "N", "O", ".", " ", "C", "A", "S">>

\* NO.CAS
lnGluedKeywords == <<"N", "O", ".", "C", "A", "S">>

\* NOS. CASE
lnLongerWords == <<"N", "O", "S", ".", " ", "C", "A", "S", "E">>

\* lines around the conditions of removeRedundantTableHeaders
RemoverLines ==
    {lnLooseHeader, lnExample3Loose, lnExample3Upper, lnCasData, lnOneKeyword,
     lnPipeInside, lnNineWords, lnEightWords, lnIndentedLoose, lnBoldKeywords,
     lnHeadingKeywords, lnGluedKeywords, lnLongerWords, lnFence, lnBlank}

\* each of them above a table, a table line alone, or a line of text
RemoverDocuments ==
    {<<l>> \o rest : l \in RemoverLines,
                     rest \in {Table4, <<lnTableHeader>>, <<lnIndentedTableHeader>>,
                               <<lnTable4Row>>, <<lnHandling>>}}

\* ## Section 7 - Use Handling:
lnSectionNoProse ==
    <<"#", "#", " ", "S", "e", "c", "t", "i", "o", "n", " ", "7", " ", "-",
      " ", "U", "s", "e", " ", "H", "a", "n", "d", "l", "i", "n", "g", ":">>

\* ## Section 1: Identification Product: Soap
lnSectionColon ==
    <<"#", "#", " ", "S", "e", "c", "t", "i", "o", "n", " ", "1", ":", " ",
      "I", "d", "e", "n", "t", "i", "f", "i", "c", "a", "t", "i", "o", "n",
      " ", "P", "r", "o", "d", "u", "c", "t", ":", " ", "S", "o", "a", "p">>

\* ## Section 2 - Hazards
lnSectionPlain ==
    <<"#", "#", " ", "S", "e", "c", "t", "i", "o", "n", " ", "2", " ", "-",
      " ", "H", "a", "z", "a", "r", "d", "s">>

\* ## Section 7 - Use Handling: Storage: dry
lnSectionTwoLabels ==
    <<"#", "#", " ", "S", "e", "c", "t", "i", "o", "n", " ", "7", " ", "-",
      " ", "U", "s", "e", " ", "H", "a", "n", "d", "l", "i", "n", "g", ":",
      " ", "S", "t", "o", "r", "a", "g", "e", ":", " ", "d", "r", "y">>

\* ## Section 9 - Data pH: 7
lnSectionLowerLabel ==
    <<"#", "#", " ", "S", "e", "c", "t", "i", "o", "n", " ", "9", " ", "-",
      " ", "D", "a", "t", "a", " ", "p", "H", ":", " ", "7">>

\* Storage:
lnStorageOnly == <<"S", "t", "o", "r", "a", "g", "e", ":">>

\* pH: 7
lnPh == <<"p", "H", ":", " ", "7">>

\* **Handling:** Keep cool
lnBoldedHandling ==
    <<"*", "*", "H", "a", "n", "d", "l", "i", "n", "g", ":", "*", "*", " ",
      "K", "e", "e", "p", " ", "c", "o", "o", "l">>

\* Auto-ignition: 400
lnAutoIgnition ==
    <<"A", "u", "t", "o", "-", "i", "g", "n", "i", "t", "i", "o", "n", ":",
      " ", "4", "0", "0">>

\* Handling and Storage: dry
lnHandlingAndStorage ==
    <<"H", "a", "n", "d", "l", "i", "n", "g", " ", "a", "n", "d", " ", "S",
      "t", "o", "r", "a", "g", "e", ":", " ", "d", "r", "y">>

\* lines around the two expressions of normalizeSectionFormatting
SectionLines ==
    {lnSection, lnSectionNoProse, lnSectionColon, lnSectionPlain, lnSectionTwoLabels,
     lnSectionLowerLabel, lnStorageOnly, lnPh, lnBoldedHandling, lnAutoIgnition,
     lnHandlingAndStorage, lnHandling, lnOdor, lnName}

\* the texts of the examples, and the texts of one line
ExampleDocuments ==
    {Example3Document, <<lnExample3Upper>> \o Table4, Table4, <<lnSectionVariable>>}
        \cup {<<l>> : l \in NormLines}
        \cup RemoverDocuments
        \cup {<<l>> : l \in SectionLines}
        \cup {<<lnSectionPlain, l>> : l \in SectionLines}

InitExamples ==
    /\ content \in ExampleDocuments
    /\ prevContent = content
    /\ lastOp = "none"
    /\ applied = 0
    /\ matches = <<>>
    /\ PdfIdle
    /\ WsIdle

SpecExamples == InitExamples /\ [][NextNorm]_vars

\* C13: removeRedundantTableHeaders deletes the loose line
\* "NO. INCI Name CAS NO. Weight" directly before a 4-column table and
\* leaves the table's lines, of 4 cells each, as they are
C13_Example3LooseLineDeleted ==
    (lastOp = "removeRedundantTableHeaders" /\ applied = 1
                                            /\ prevContent = Example3Document)
        => content = Table4

RECURSIVE tokenNames(_, _)
\* the names of the {{Name}} tokens of s from index p on, in order, duplicates
\* included
tokenNames(s, p) ==
    LET starts == {i \in p..Len(s) : tokenAt(s, i)}
    IN  IF starts = {} THEN <<>>
        ELSE LET i == SetMin(starts)
             IN  <<nameAt(s, i)>> \o tokenNames(s, i + Len(nameAt(s, i)) + 4)

\* C20: a pass, and the pipeline, leaves the sequence of the {{Name}} tokens of
\* the text as it is: the same names in the same order, duplicates included
C20_PlaceholdersPreserved ==
    lastOp # "none" =>
        tokenNames(joinLines(content), 1) = tokenNames(joinLines(prevContent), 1)

----------------------------------------------------------------------------
(* extractTextFromPdf.  Coordinates are in hundredths of a PDF unit, so    *)
(* that 10.03 is 1003.  A value of type number is <<v>> for the number v   *)
(* and <<>> for NaN.  A text item is [str, e, f]: its string and the last  *)
(* two entries of its transform; an entry that is missing, or is not of    *)
(* type number, is a field the record does not have.                       *)

NaN == <<>>

\* typeof e === 'number' ? e : 0, for the entry e or f of the transform
coordinate(raw, entry) == IF entry \in DOMAIN raw THEN raw[entry] ELSE <<0>>

\* l - r on values of type number
minus(l, r) == IF l = NaN \/ r = NaN THEN NaN ELSE <<l[1] - r[1]>>

\* the map callback of the items
toItem(raw) == [str |-> raw.str, x |-> coordinate(raw, "e"), y |-> coordinate(raw, "f")]

\* the filter callback: item.str && String(item.str).trim() !== ''
hasText(item) == trim(item.str) # <<>>

\* the comparator given to items.sort: negative when l comes first; NaN === NaN
\* is false
compareItems(l, r) ==
    IF l.y # NaN /\ l.y = r.y THEN minus(l.x, r.x) ELSE minus(r.y, l.y)

RECURSIVE sortItems(_)
\* Array.prototype.sort with compareItems, which reads a result of NaN as 0:
\* the sort is stable, so an item goes after the items before it that do not
\* compare greater
sortItems(its) ==
    IF its = <<>> THEN <<>>
    ELSE LET n      == Len(its)
             sorted == sortItems(SubSeq(its, 1, n - 1))
             k      == Cardinality({j \in 1..(n - 1) :
                                           LET v == compareItems(sorted[j], its[n])
                                           IN  v = NaN \/ v[1] <= 0})
         IN  SubSeq(sorted, 1, k) \o <<its[n]>> \o SubSeq(sorted, k + 1, n - 1)

\* const lineThreshold = 2.5
lineThreshold == 250

RECURSIVE collapseSpace(_)
\* replace(/\s+/g, ' ')
collapseSpace(s) ==
    IF s = <<>> THEN <<>>
    ELSE IF s[1] \in WhiteSpace
    THEN <<" ">> \o collapseSpace(SubSeq(s, runEnd(s, 1, WhiteSpace), Len(s)))
    ELSE <<s[1]>> \o collapseSpace(Tail(s))

RECURSIVE joinParts(_)
\* currentLineParts.join(' ')
joinParts(parts) ==
    IF parts = <<>> THEN <<>>
    ELSE IF Len(parts) = 1 THEN parts[1]
    ELSE parts[1] \o <<" ">> \o joinParts(Tail(parts))

\* flushLine: the array lines after the current parts are flushed into it
flushLine(lines, parts) ==
    IF Len(parts) > 0 THEN Append(lines, trim(collapseSpace(joinParts(parts)))) ELSE lines

RECURSIVE groupLines(_, _, _, _, _)
\* the loop over the sorted items from item k on; started is currentLineY !== null
groupLines(its, k, lines, started, walk) ==
    IF k > Len(its) THEN flushLine(lines, walk.parts)
    ELSE IF ~started
    THEN groupLines(its, k + 1, lines, TRUE, [y |-> its[k].y, parts |-> <<its[k].str>>])
    ELSE IF LET gap == minus(its[k].y, walk.y)
            IN  gap # NaN /\ (IF gap[1] >= 0 THEN gap[1] ELSE 0 - gap[1]) > lineThreshold
    THEN groupLines(its, k + 1, flushLine(lines, walk.parts), TRUE,
                    [y |-> its[k].y, parts |-> <<its[k].str>>])
    ELSE groupLines(its, k + 1, lines, TRUE,
                    [y |-> walk.y, parts |-> Append(walk.parts, its[k].str)])

\* the items of a page after map and filter
pageItems(rawItems) == SelectSeq([k \in 1..Len(rawItems) |-> toItem(rawItems[k])], hasText)

\* the array `lines` built for one page
extractPageLines(rawItems) ==
    groupLines(sortItems(pageItems(rawItems)), 1, <<>>, FALSE, [y |-> <<0>>, parts |-> <<>>])

DigitSeq == <<"0", "1", "2", "3", "4", "5", "6", "7", "8", "9">>

RECURSIVE toDecimal(_)
\* the decimal digits of a number in a template literal
toDecimal(n) ==
    IF n < 10 THEN <<DigitSeq[n + 1]>>
    ELSE toDecimal(n \div 10) \o <<DigitSeq[(n % 10) + 1]>>

\* --- Page n ---
pageMarker(n) ==
    <<"-", "-", "-", " ", "P", "a", "g", "e", " ">> \o toDecimal(n) \o <<" ", "-", "-", "-">>

\* text += more, both as lines: the last line of text runs on into the first of more
appendText(text, more) ==
    SubSeq(text, 1, Len(text) - 1) \o <<text[Len(text)] \o more[1]>> \o Tail(more)

\* `\n\n--- Page ${i} ---\n\n${pageText}` as lines, pageText being lines.join('\n')
pageBlock(n, lines) == << <<>>, <<>>, pageMarker(n), <<>> >> \o joinSplit(lines)

cA == <<"A">>
cB == <<"B">>
cC == <<"C">>

\* the fragments of the pages: among them one without coordinates, one whose
\* x is NaN and one without text.  compareItems orders every list of them
\* consistently: fragments of equal y compare equal
Fragments ==
    {[str |-> cA, e |-> <<0>>, f |-> <<1000>>],
     [str |-> cB, e |-> <<500>>, f |-> <<1003>>],
     [str |-> cC, e |-> <<0>>, f |-> <<700>>],
     [str |-> cB, e |-> <<0>>, f |-> <<1000>>],
     [str |-> cC, e |-> <<500>>, f |-> <<950>>],
     [str |-> cB, e |-> <<0>>, f |-> <<800>>],
     [str |-> cA],
     [str |-> cC, e |-> NaN, f |-> <<1003>>],
     [str |-> <<" ">>, e |-> <<0>>, f |-> <<700>>]}

MaxItems == 3
MaxPages == 2

\* the pages of up to MaxItems fragments
Pages == UNION {[1..n -> Fragments] : n \in 0..MaxItems}

\* the pages of the documents of more than one page: of at most one fragment
ShortPages == UNION {[1..n -> Fragments] : n \in 0..1}

InitPdf ==
    /\ pdfPages \in {<<p>> : p \in Pages}
                    \cup UNION {[1..n -> ShortPages] : n \in 2..MaxPages}
    /\ pageNum = 1
    /\ pageLines = <<>>
    /\ fullText = << <<>> >>
    /\ pdfPc = "loop"
    /\ content = << <<>> >>
    /\ prevContent = << <<>> >>
    /\ lastOp = "none"
    /\ applied = 0
    /\ matches = <<>>
    /\ WsIdle

\* one iteration of the loop over the pages
ExtractPage ==
    /\ pdfPc = "loop"
    /\ pageNum <= Len(pdfPages)
    /\ pageLines' = extractPageLines(pdfPages[pageNum])
    /\ fullText' = appendText(fullText, pageBlock(pageNum, pageLines'))
    /\ pageNum' = pageNum + 1
    /\ UNCHANGED <<pdfPages, pdfPc, normVars, wsVars, exportVars, diagVars, llmVars>>

\* return fullText
ReturnFullText ==
    /\ pdfPc = "loop"
    /\ pageNum > Len(pdfPages)
    /\ pdfPc' = "done"
    /\ UNCHANGED <<pdfPages, pageNum, pageLines, fullText, normVars, wsVars, exportVars, diagVars, llmVars>>

NextPdf == ExtractPage \/ ReturnFullText

SpecPdf == InitPdf /\ [][NextPdf]_vars

\* the orders in which n fragments can be supplied
Orderings(n) == {p \in [1..n -> 1..n] : \A i, j \in 1..n : i # j => p[i] # p[j]}

\* the page extracted last
lastPage == pdfPages[pageNum - 1]

\* C6: the lines extracted for a page are the lines extracted for every
\* permutation of that page's fragment list
C6_OrderOfFragmentsIrrelevant ==
    pageNum > 1 =>
        \A p \in Orderings(Len(lastPage)) :
            extractPageLines([k \in 1..Len(lastPage) |-> lastPage[p[k]]]) = pageLines

\* [("A",0,10.00),("B",5,10.03),("C",0,7.00)]
Example1 ==
    <<[str |-> cA, e |-> <<0>>, f |-> <<1000>>],
      [str |-> cB, e |-> <<500>>, f |-> <<1003>>],
      [str |-> cC, e |-> <<0>>, f |-> <<700>>]>>

\* C7: fragments whose y differ by less than 0.1 share a line and are read
\* left to right, lines top to bottom: the page of Example 1 yields exactly
\* the lines "A B" and "C"
C7_Example1ReadsLeftToRight ==
    (pageNum > 1 /\ lastPage = Example1) => pageLines = <<cA \o <<" ">> \o cB, cC>>

\* the fragment with 0 for each coordinate that is missing or not a number
withZeroes(raw) ==
    [str |-> raw.str,
     e |-> IF "e" \in DOMAIN raw /\ raw.e # NaN THEN raw.e ELSE <<0>>,
     f |-> IF "f" \in DOMAIN raw /\ raw.f # NaN THEN raw.f ELSE <<0>>]

\* the line is a page marker
isPageMarker(line) == startsWith(line, <<"-", "-", "-", " ", "P", "a", "g", "e", " ">>)

\* C19: a fragment whose coordinate is missing or not a number is processed as
\* if the coordinate were 0 and its text is in the output; a page without
\* fragments gives an empty block under its marker; the k-th page marker of
\* the text carries the number k
C19_MalformedInputRecovered ==
    pageNum > 1 =>
        /\ pageLines = extractPageLines([k \in 1..Len(lastPage) |-> withZeroes(lastPage[k])])
        /\ \A k \in DOMAIN lastPage :
              trim(lastPage[k].str) # <<>> =>
                  \E l \in DOMAIN pageLines : includes(pageLines[l], lastPage[k].str)
        /\ lastPage = <<>> =>
              /\ pageLines = <<>>
              /\ SubSeq(fullText, Len(fullText) - 2, Len(fullText))
                    = <<pageMarker(pageNum - 1), <<>>, <<>>>>
        /\ SelectSeq(fullText, isPageMarker) = [k \in 1..(pageNum - 1) |-> pageMarker(k)]

----------------------------------------------------------------------------
(* ReportWorkspace: findTableInContent, smartMapColumns and the table      *)
(* modal.  Line indices are the code's: 0-based.                           *)

RECURSIVE splitPipe(_)
\* line.split('|')
splitPipe(s) ==
    LET bar == runEnd(s, 1, Range(s) \ {"|"})
    IN  IF bar > Len(s) THEN <<s>>
        ELSE <<SubSeq(s, 1, bar - 1)>> \o splitPipe(SubSeq(s, bar + 1, Len(s)))

isNonEmpty(s) == s # <<>>

\* line.split('|').map(s => s.trim()).filter(s => s !== '')
cleanHeaders(line) ==
    LET cells == splitPipe(line)
    IN  SelectSeq([k \in 1..Len(cells) |-> trim(cells[k])], isNonEmpty)

\* the test of the outer if: the line is a table row
isRowLine(line) == startsWith(line, <<"|">>) /\ endsWith(line, <<"|">>)

\* the inner if without the test for '---'
isSeparatorLineNoDashes(line) == startsWith(line, <<"|">>) /\ endsWith(line, <<"|">>)

\* the test of the inner if: the next line is a separator row
isSeparatorLine(line) ==
    startsWith(line, <<"|">>) /\ includes(line, <<"-", "-", "-">>) /\ endsWith(line, <<"|">>)

RECURSIVE tableEnd(_, _)
\* the inner loop from index j on: the first line that does not start with '|'
tableEnd(lines, j) ==
    IF j >= Len(lines) THEN Len(lines)
    ELSE IF ~startsWith(trim(lines[j + 1]), <<"|">>) THEN j
    ELSE tableEnd(lines, j + 1)

\* the return value null
RECURSIVE findTableFrom(_, _)
\* the outer loop from index i on
findTableFrom(lines, i) ==
    IF i >= Len(lines) - 1 THEN Null
    ELSE IF isRowLine(trim(lines[i + 1])) /\ isSeparatorLine(trim(lines[i + 2]))
    THEN [headers   |-> cleanHeaders(trim(lines[i + 1])),
          startLine |-> i,
          endLine   |-> tableEnd(lines, i + 2)]
    ELSE findTableFrom(lines, i + 1)

findTableInContent(lines) == findTableFrom(lines, 0)

\* excelHeaders.find(test): the first element whose index is among passing, the
\* indices of the elements that pass the test; <<>> (falsy, like undefined) if none
find(hs, passing) == IF passing = {} THEN <<>> ELSE hs[SetMin(passing)]

\* the indices of the elements of hs
indices(hs) == 1..Len(hs)

kNo == <<"n", "o", ".">>
kInci == <<"i", "n", "c", "i">>
kName == <<"n", "a", "m", "e">>
kCas == <<"c", "a", "s">>
kWeight == <<"w", "e", "i", "g", "h", "t">>
kPercent == <<"%">>
kContent == <<"c", "o", "n", "t", "e", "n", "t">>
kFunction == <<"f", "u", "n", "c", "t", "i", "o", "n">>
\* the Chinese keywords, each character named by its code point
kXuhao == <<"U+5E8F", "U+53F7">>
kMingcheng == <<"U+540D", "U+79F0">>
kHanliang == <<"U+542B", "U+91CF">>
kZuoyong == <<"U+4F5C", "U+7528">>
kGongneng == <<"U+529F", "U+80FD">>

\* step 2: the keyword tier; the first branch whose test the target passes decides
keywordMatch(tLow, excelHeaders) ==
    LET isNo(eh)       == includes(eh, kXuhao) \/ includes(toLowerCase(eh), kNo)
        isName(eh)     == includes(toLowerCase(eh), kInci) \/ includes(eh, kMingcheng)
                          \/ includes(eh, kName)
        isCas(eh)      == includes(toLowerCase(eh), kCas)
        isWeight(eh)   == includes(eh, kHanliang) \/ includes(eh, kPercent)
                          \/ includes(toLowerCase(eh), kContent)
        isFunction(eh) == includes(eh, kZuoyong) \/ includes(eh, kGongneng)
        hs             == excelHeaders
    IN  IF includes(tLow, kNo) \/ includes(tLow, kXuhao)
        THEN find(hs, {k \in indices(hs) : isNo(hs[k])})
        ELSE IF includes(tLow, kInci) \/ includes(tLow, kName)
        THEN find(hs, {k \in indices(hs) : isName(hs[k])})
        ELSE IF includes(tLow, kCas)
        THEN find(hs, {k \in indices(hs) : isCas(hs[k])})
        ELSE IF includes(tLow, kWeight) \/ includes(tLow, kPercent)
                \/ includes(tLow, kContent) \/ includes(tLow, kHanliang)
        THEN find(hs, {k \in indices(hs) : isWeight(hs[k])})
        ELSE IF includes(tLow, kFunction) \/ includes(tLow, kZuoyong)
        THEN find(hs, {k \in indices(hs) : isFunction(hs[k])})
        ELSE <<>>

\* the value the forEach callback stores for one target; '' when unmapped
matchColumn(target, excelHeaders) ==
    LET tLow           == toLowerCase(target)
        hs             == excelHeaders
        isExact(eh)    == toLowerCase(eh) = tLow
        contains(eh)   == includes(toLowerCase(eh), tLow) \/ includes(tLow, toLowerCase(eh))
        exact          == find(hs, {k \in indices(hs) : isExact(hs[k])})
        keyword        == IF exact = <<>> THEN keywordMatch(tLow, hs) ELSE exact
        containment    == IF keyword = <<>>
                          THEN find(hs, {k \in indices(hs) : contains(hs[k])})
                          ELSE keyword
    IN  containment

\* the key __proto__
kProto == <<"_", "_", "p", "r", "o", "t", "o", "_", "_">>

\* mapping[key] = value, value a string, on an object literal held as a function
\* of its own keys: the key __proto__ is the accessor inherited from
\* Object.prototype, whose setter ignores a string and creates no own key
setKey(mapping, key, value) ==
    IF key = kProto THEN mapping
    ELSE [k \in DOMAIN mapping \cup {key} |-> IF k = key THEN value ELSE mapping[k]]

\* the empty object {}
EmptyObject == [k \in {} |-> <<>>]

RECURSIVE mapColumns(_, _, _, _)
\* the forEach over targetHeaders from element k on
mapColumns(targetHeaders, excelHeaders, k, mapping) ==
    IF k > Len(targetHeaders) THEN mapping
    ELSE mapColumns(targetHeaders, excelHeaders, k + 1,
                    setKey(mapping, targetHeaders[k],
                           matchColumn(targetHeaders[k], excelHeaders)))

smartMapColumns(targetHeaders, excelHeaders) ==
    mapColumns(targetHeaders, excelHeaders, 1, EmptyObject)

----------------------------------------------------------------------------
(* The workspace as a state machine.                                       *)

\* | NO. | Name | CAS |
wlHeader ==
    <<"|", " ", "N", "O", ".", " ", "|", " ", "N", "a", "m", "e", " ", "|",
      " ", "C", "A", "S", " ", "|">>
\* | --- | --- | --- |
wlSeparator ==
    <<"|", " ", "-", "-", "-", " ", "|", " ", "-", "-", "-", " ", "|", " ",
      "-", "-", "-", " ", "|">>
\* | --- | --- |
wlShortSeparator ==
    <<"|", " ", "-", "-", "-", " ", "|", " ", "-", "-", "-", " ", "|">>
\* | 1 | Aqua | 7732-18-5 |
wlRow ==
    <<"|", " ", "1", " ", "|", " ", "A", "q", "u", "a", " ", "|", " ", "7",
      "7", "3", "2", "-", "1", "8", "-", "5", " ", "|">>
\* Composition
wlText == <<"C", "o", "m", "p", "o", "s", "i", "t", "i", "o", "n">>

\* | __proto__ | CAS |
wlProtoHeader ==
    <<"|", " ", "_", "_", "p", "r", "o", "t", "o", "_", "_", " ", "|", " ", "C",
      "A", "S", " ", "|">>

WsLines == {wlHeader, wlSeparator, wlShortSeparator, wlRow, wlText, wlProtoHeader}

MaxWsLines == 4

WsDocuments == UNION {[1..n -> WsLines] : n \in 1..MaxWsLines}

\* no.
hNo == <<"n", "o", ".">>
\* INCI name
hInciName == <<"I", "N", "C", "I", " ", "n", "a", "m", "e">>
\* CAS No
hCasNo == <<"C", "A", "S", " ", "N", "o">>
\* Aqua (water)
hAqua == <<"A", "q", "u", "a", " ", "(", "w", "a", "t", "e", "r", ")">>
\* Number
hNumber == <<"N", "u", "m", "b", "e", "r">>
\* the empty header
hEmpty == <<>>

\* the header rows of the uploaded sheets
SourceHeaderLists ==
    {<<hNo, hInciName, hCasNo>>, <<hAqua, hNumber>>, <<hEmpty, hCasNo>>, <<>>}

\* the row of a sheet whose cell in column c reads r, then the c-th letter; a
\* cell value is [str |-> s] for the string s and [num |-> n] for the number n
sheetRow(headers, r) ==
    [h \in Range(headers) |->
        [str |-> <<r, LowerSeq[CHOOSE c \in DOMAIN headers : headers[c] = h]>>]]

\* a sheet of two rows with these headers
sheet(headers) ==
    [headers |-> headers, rows |-> <<sheetRow(headers, "1"), sheetRow(headers, "2")>>]

\* useState of tableConfig
InitialTableConfig ==
    [mode            |-> "manual",
     targetHeaders   |-> <<>>,
     columnMapping   |-> EmptyObject,
     replaceRange    |-> Null,
     selectedColumns |-> <<>>,
     headerRenames   |-> EmptyObject]

InitWs ==
    /\ localContent \in WsDocuments
    /\ gridData \in {sheet(hs) : hs \in SourceHeaderLists}
    /\ selectedRowIndices = {}
    /\ tableConfig = InitialTableConfig
    /\ showTableModal = FALSE
    /\ ExportIdle
    /\ DiagIdle
    /\ LlmIdle
    /\ content = << <<>> >>
    /\ prevContent = << <<>> >>
    /\ lastOp = "none"
    /\ applied = 0
    /\ matches = <<>>
    /\ PdfIdle

\* toggleRowSelection(index); the grid lies under the modal's overlay
ToggleRowSelection ==
    \E index \in 0..(Len(gridData.rows) - 1) :
        /\ ~showTableModal
        /\ selectedRowIndices' = IF index \in selectedRowIndices
                                 THEN selectedRowIndices \ {index}
                                 ELSE selectedRowIndices \cup {index}
        /\ UNCHANGED <<localContent, gridData, tableConfig, showTableModal, normVars, pdfVars, exportVars, diagVars, llmVars>>

\* the tableConfig initTableModal sets for a template with a table
templateDrivenConfig(existingTable, headers) ==
    [mode            |-> "template-driven",
     targetHeaders   |-> existingTable.headers,
     columnMapping   |-> smartMapColumns(existingTable.headers, headers),
     replaceRange    |-> [start |-> existingTable.startLine, end |-> existingTable.endLine],
     selectedColumns |-> <<>>,
     headerRenames   |-> EmptyObject]

\* the tableConfig initTableModal sets for a template without a table
manualConfig(headers) ==
    [mode            |-> "manual",
     targetHeaders   |-> <<>>,
     columnMapping   |-> EmptyObject,
     replaceRange    |-> Null,
     selectedColumns |-> headers,
     headerRenames   |-> [h \in Range(headers) \ {kProto} |-> h]]

\* initTableModal, the button "Insert Rows"; the button lies under the overlay
InitTableModal ==
    /\ ~showTableModal
    /\ IF selectedRowIndices = {}
       THEN UNCHANGED <<tableConfig, showTableModal>>
       ELSE /\ tableConfig' =
                  LET existingTable == findTableInContent(localContent)
                  IN  IF existingTable # Null
                      THEN templateDrivenConfig(existingTable, gridData.headers)
                      ELSE manualConfig(gridData.headers)
            /\ showTableModal' = TRUE
    /\ UNCHANGED <<localContent, gridData, selectedRowIndices, normVars, pdfVars, exportVars, diagVars, llmVars>>

\* the modal's Cancel button and its close button: setShowTableModal(false)
CancelTableModal ==
    /\ showTableModal
    /\ showTableModal' = FALSE
    /\ UNCHANGED <<localContent, gridData, selectedRowIndices, tableConfig, normVars, pdfVars, exportVars, diagVars, llmVars>>

NextWs == ToggleRowSelection \/ InitTableModal \/ CancelTableModal

SpecWs == InitWs /\ [][NextWs]_vars

\* the modal is open on a table found in the template
tableFound == showTableModal /\ tableConfig.mode = "template-driven"

\* the number of cells between the outer bars of a table line
cellCount(line) == Len(splitPipe(trim(line))) - 2

\* C8: the header line of a reported table and the separator line under it
\* have the same number of cells
C8_HeaderAndSeparatorSameCellCount ==
    tableFound =>
        cellCount(localContent[tableConfig.replaceRange.start + 1])
            = cellCount(localContent[tableConfig.replaceRange.start + 2])

\* line i (0-based) has the form | ... | and line i+1 is a separator line
qualifies(lines, i) ==
    LET head == trim(lines[i + 1])
        sep  == trim(lines[i + 2])
    IN  /\ head # <<>> /\ Head(head) = "|" /\ head[Len(head)] = "|"
        /\ sep # <<>> /\ Head(sep) = "|" /\ sep[Len(sep)] = "|"
        /\ \E k \in 1..(Len(sep) - 2) : sep[k] = "-" /\ sep[k + 1] = "-" /\ sep[k + 2] = "-"

\* the indices at which a table starts
tableStarts(lines) == {i \in 0..(Len(lines) - 2) : qualifies(lines, i)}

\* the first index after the separator of the table at i whose line does not
\* start with a bar, the number of lines if there is none
firstAfterTable(lines, i) ==
    SetMin({j \in (i + 2)..(Len(lines) - 1) :
                trim(lines[j + 1]) = <<>> \/ Head(trim(lines[j + 1])) # "|"}
           \cup {Len(lines)})

\* C9: the table reported is the first qualifying one, from its header line to
\* the first line after the separator that does not start with a bar (or the
\* end of the text); the lines from there on do not affect the result; and
\* no table is reported exactly when no line qualifies
C9_FirstTableOnly ==
    showTableModal =>
        IF tableStarts(localContent) = {}
        THEN tableConfig.mode = "manual" /\ tableConfig.replaceRange = Null
        ELSE LET first == SetMin(tableStarts(localContent))
                 last  == firstAfterTable(localContent, first)
             IN  /\ tableConfig.mode = "template-driven"
                 /\ tableConfig.replaceRange = [start |-> first, end |-> last]
                 /\ findTableInContent(SubSeq(localContent, 1, last))
                        = findTableInContent(localContent)

\* a table is reported that starts below the first line and ends above the last
C9_Witness ==
    /\ tableFound
    /\ tableConfig.replaceRange.start > 0
    /\ tableConfig.replaceRange.end < Len(localContent)

\* C10: the mapping has an entry for every target header, each one of the
\* source headers or the empty string
C10_MappingTotal ==
    tableFound =>
        /\ Range(tableConfig.targetHeaders) \subseteq DOMAIN tableConfig.columnMapping
        /\ \A t \in DOMAIN tableConfig.columnMapping :
               tableConfig.columnMapping[t] \in Range(gridData.headers) \cup {<<>>}

----------------------------------------------------------------------------
(* The table modal on the templates and sheets of the column mapper's      *)
(* examples.                                                               *)

\* | NO. | INCI Name | CAS NO. | Weight(%) |
wlExample4Header ==
    <<"|", " ", "N", "O", ".", " ", "|", " ", "I", "N", "C", "I", " ", "N",
      "a", "m", "e", " ", "|", " ", "C", "A", "S", " ", "N", "O", ".", " ",
      "|", " ", "W", "e", "i", "g", "h", "t", "(", "%", ")", " ", "|">>
\* | --- | --- | --- | --- |
wlSeparator4 ==
    <<"|", " ", "-", "-", "-", " ", "|", " ", "-", "-", "-", " ", "|", " ",
      "-", "-", "-", " ", "|", " ", "-", "-", "-", " ", "|">>
\* | Aqua | Weight | Supplier |
wlTierHeader ==
    <<"|", " ", "A", "q", "u", "a", " ", "|", " ", "W", "e", "i", "g", "h",
      "t", " ", "|", " ", "S", "u", "p", "p", "l", "i", "e", "r", " ", "|">>

\* the templates: one table each
MapDocuments ==
    {<<wlExample4Header, wlSeparator4>>,
     <<wlHeader, wlSeparator>>,
     <<wlText, wlTierHeader, wlSeparator, wlRow>>}

\* Item No
hItemNo == <<"I", "t", "e", "m", " ", "N", "o">>
\* Ingredient
hIngredient == <<"I", "n", "g", "r", "e", "d", "i", "e", "n", "t">>
\* CAS Number
hCasNumber == <<"C", "A", "S", " ", "N", "u", "m", "b", "e", "r">>
\* Content(%)
hContentPct == <<"C", "o", "n", "t", "e", "n", "t", "(", "%", ")">>

\* ["Item No","Ingredient","CAS Number","Content(%)"]
Example4Sources == <<hItemNo, hIngredient, hCasNumber, hContentPct>>

InitMap ==
    /\ localContent \in MapDocuments
    /\ gridData \in {sheet(hs) : hs \in SourceHeaderLists \cup {Example4Sources}}
    /\ selectedRowIndices = {}
    /\ tableConfig = InitialTableConfig
    /\ showTableModal = FALSE
    /\ ExportIdle
    /\ DiagIdle
    /\ LlmIdle
    /\ content = << <<>> >>
    /\ prevContent = << <<>> >>
    /\ lastOp = "none"
    /\ applied = 0
    /\ matches = <<>>
    /\ PdfIdle

SpecMap == InitMap /\ [][NextWs]_vars

\* NO.
tNo == <<"N", "O", ".">>
\* INCI Name
tInciName == <<"I", "N", "C", "I", " ", "N", "a", "m", "e">>
\* CAS NO.
tCasNo == <<"C", "A", "S", " ", "N", "O", ".">>
\* Weight(%)
tWeightPct == <<"W", "e", "i", "g", "h", "t", "(", "%", ")">>

\* ["NO.","INCI Name","CAS NO.","Weight(%)"]
Example4Targets == <<tNo, tInciName, tCasNo, tWeightPct>>

\* {"NO.":"Item No", "INCI Name":"Ingredient", "CAS NO.":"CAS Number",
\*  "Weight(%)":"Content(%)"}
Example4Mapping ==
    [t \in Range(Example4Targets) |->
        Example4Sources[CHOOSE k \in 1..4 : Example4Targets[k] = t]]

\* C11: for the targets and the sources of Example 4 the mapping is exactly
\* NO. -> Item No, INCI Name -> Ingredient, CAS NO. -> CAS Number,
\* Weight(%) -> Content(%)
C11_Example4Mapping ==
    (tableFound /\ tableConfig.targetHeaders = Example4Targets
                /\ gridData.headers = Example4Sources)
        => tableConfig.columnMapping = Example4Mapping

\* the keyword categories: sequence number, name/INCI, CAS,
\* weight/percentage/content, function
Categories ==
    {{kNo, kXuhao}, {kInci, kName, kMingcheng}, {kCas},
     {kWeight, kPercent, kContent, kHanliang}, {kFunction, kZuoyong, kGongneng}}

\* the name holds a keyword of the category, ignoring case
inCategory(name, category) == \E kw \in category : includes(toLowerCase(name), kw)

\* tier 1: the sources equal to the target ignoring case
exactSources(t, hs) == {s \in Range(hs) : toLowerCase(s) = toLowerCase(t)}

\* tier 2: the sources that share a keyword category with the target
categorySources(t, hs) ==
    {s \in Range(hs) : \E c \in Categories : inCategory(t, c) /\ inCategory(s, c)}

\* tier 3: the sources that contain the target or are contained in it, ignoring case
containmentSources(t, hs) ==
    {s \in Range(hs) : \/ includes(toLowerCase(s), toLowerCase(t))
                       \/ includes(toLowerCase(t), toLowerCase(s))}

\* C12: each target is mapped to a source of the first tier that has a
\* matching source (equal ignoring case, else sharing a keyword category,
\* else containment), and is left empty only when no tier has one
C12_FirstMatchingTierWins ==
    tableFound =>
        \A t \in Range(tableConfig.targetHeaders) :
            LET hs     == gridData.headers
                chosen == tableConfig.columnMapping[t]
            IN  IF exactSources(t, hs) # {} THEN chosen \in exactSources(t, hs)
                ELSE IF categorySources(t, hs) # {} THEN chosen \in categorySources(t, hs)
                ELSE IF containmentSources(t, hs) # {} THEN chosen \in containmentSources(t, hs)
                ELSE chosen = <<>>

----------------------------------------------------------------------------
(* ReportWorkspace: the export modal and the grouping of its variables.    *)

\* Uncategorized
kUncategorized == <<"U", "n", "c", "a", "t", "e", "g", "o", "r", "i", "z", "e", "d">>
\* the names initExportModal keeps out of the user's list
autoVars == {<<"T", "o", "t", "a", "l", "P", "a", "g", "e", "s">>,
             <<"C", "u", "r", "r", "e", "n", "t", "P", "a", "g", "e">>}

\* line.match(/^#{2,4}\s+(.+)$/) on a trimmed line: the text captured, or the
\* empty string when the line is no heading of level 2 to 4
headingMatch(line) ==
    LET n == runEnd(line, 1, {"#"}) - 1
    IN  IF n \in 2..4 /\ n + 1 <= Len(line) /\ line[n + 1] \in WhiteSpace
        THEN SubSeq(line, runEnd(line, n + 1, WhiteSpace), Len(line))
        ELSE <<>>

RECURSIVE scanSections(_, _, _, _, _, _)
\* the loop over the lines from line k on: the section order and the section
\* map at its end
scanSections(lines, detected, k, currentSection, sectionOrder, sectionMap) ==
    IF k > Len(lines) THEN [sectionOrder |-> sectionOrder, sectionMap |-> sectionMap]
    ELSE LET line == trim(lines[k])
             heading == trim(headingMatch(line))
             found == {v \in Range(detectVariables(line)) : v \in Range(detected)}
         IN  IF headingMatch(line) # <<>>
             THEN scanSections(lines, detected, k + 1, heading,
                               IF heading \in Range(sectionOrder) THEN sectionOrder
                               ELSE Append(sectionOrder, heading),
                               sectionMap)
             ELSE scanSections(lines, detected, k + 1, currentSection, sectionOrder,
                               [v \in DOMAIN sectionMap \cup found |->
                                   IF v \in DOMAIN sectionMap THEN sectionMap[v]
                                   ELSE currentSection])

\* groupedVariables whose filter keeps the sections without placeholders instead
groupedVariablesKeepingEmpty(detected, lines) ==
    LET scan == scanSections(lines, detected, 1, kUncategorized, <<kUncategorized>>, EmptyObject)
        sectionOf(v) == IF v \in DOMAIN scan.sectionMap THEN scan.sectionMap[v]
                        ELSE kUncategorized
        group(section) == LET inSection(v) == sectionOf(v) = section
                          IN  SelectSeq(detected, inSection)
        hasGroup(section) == group(section) = <<>>
        kept == SelectSeq(scan.sectionOrder, hasGroup)
    IN  [i \in 1..Len(kept) |-> [section |-> kept[i], variables |-> group(kept[i])]]

\* the useMemo groupedVariables over detectedVariables and localContent
groupedVariables(detected, lines) ==
    LET scan == scanSections(lines, detected, 1, kUncategorized, <<kUncategorized>>, EmptyObject)
        sectionOf(v) == IF v \in DOMAIN scan.sectionMap THEN scan.sectionMap[v]
                        ELSE kUncategorized
        group(section) == LET inSection(v) == sectionOf(v) = section
                          IN  SelectSeq(detected, inSection)
        hasGroup(section) == group(section) # <<>>
        kept == SelectSeq(scan.sectionOrder, hasGroup)
    IN  [i \in 1..Len(kept) |-> [section |-> kept[i], variables |-> group(kept[i])]]

\* initExportModal, in a session whose stored values, data.keyValues and
\* template.defaultValues are all empty, so that every value starts as ''
InitExportModal ==
    /\ ~showExportModal /\ ~showTableModal
    /\ LET allVars == detectVariables(joinLines(localContent))
           isUserVar(v) == v \notin autoVars
           userVars == SelectSeq(allVars, isUserVar)
       IN  /\ detectedVariables' = userVars
           /\ variableValues' = [v \in Range(userVars) \ {kProto} |-> <<>>]
    /\ showExportModal' = TRUE
    /\ UNCHANGED <<wsVars, normVars, pdfVars, diagVars, llmVars>>

\* the modal's close and cancel buttons
CloseExportModal ==
    /\ showExportModal
    /\ showExportModal' = FALSE
    /\ UNCHANGED <<detectedVariables, variableValues, wsVars, normVars, pdfVars, diagVars, llmVars>>

\* {{CompanyName}}
vlCompany ==
    <<"{", "{", "C", "o", "m", "p", "a", "n", "y", "N", "a", "m", "e", "}",
      "}">>
\* ## Product
vlHeading == <<"#", "#", " ", "P", "r", "o", "d", "u", "c", "t">>
\* {{ProductName}}
vlProduct ==
    <<"{", "{", "P", "r", "o", "d", "u", "c", "t", "N", "a", "m", "e", "}",
      "}">>
\* ### Storage {{ProductName}}
vlHeadingWithVariable ==
    <<"#", "#", "#", " ", "S", "t", "o", "r", "a", "g", "e", " ", "{", "{",
      "P", "r", "o", "d", "u", "c", "t", "N", "a", "m", "e", "}", "}">>
\* Batch {{ProductName}} of {{CompanyName}}
vlBoth ==
    <<"B", "a", "t", "c", "h", " ", "{", "{", "P", "r", "o", "d", "u", "c",
      "t", "N", "a", "m", "e", "}", "}", " ", "o", "f", " ", "{", "{", "C",
      "o", "m", "p", "a", "n", "y", "N", "a", "m", "e", "}", "}">>
\* Page {{CurrentPage}}
vlPage ==
    <<"P", "a", "g", "e", " ", "{", "{", "C", "u", "r", "r", "e", "n", "t",
      "P", "a", "g", "e", "}", "}">>

ExportLines == {vlCompany, vlHeading, vlProduct, vlHeadingWithVariable, vlBoth, vlPage}

MaxExportLines == 3

ExportDocuments == UNION {[1..n -> ExportLines] : n \in 1..MaxExportLines}

InitExport ==
    /\ localContent \in ExportDocuments
    /\ gridData = sheet(<<hNo, hInciName>>)
    /\ selectedRowIndices = {}
    /\ tableConfig = InitialTableConfig
    /\ showTableModal = FALSE
    /\ ExportIdle
    /\ DiagIdle
    /\ LlmIdle
    /\ content = << <<>> >>
    /\ prevContent = << <<>> >>
    /\ lastOp = "none"
    /\ applied = 0
    /\ matches = <<>>
    /\ PdfIdle

NextExport == InitExportModal \/ CloseExportModal

SpecExport == InitExport /\ [][NextExport]_vars

\* the groups shown in the open export modal
groups == groupedVariables(detectedVariables, localContent)

\* the section of the group that lists the name
groupOf(name) ==
    groups[CHOOSE i \in DOMAIN groups : name \in Range(groups[i].variables)].section

\* line k is a heading of level 2 to 4
isHeadingLine(k) == headingMatch(trim(localContent[k])) # <<>>

\* the lines in which a token of the name occurs
occurrences(name) ==
    {k \in DOMAIN localContent :
        \E i \in 1..Len(localContent[k]) :
            tokenAt(localContent[k], i) /\ nameAt(localContent[k], i) = name}

\* the text of the most recent heading among the first k lines, or the default
sectionAfter(k) ==
    LET headings == {h \in 1..k : isHeadingLine(h)}
    IN  IF headings = {} THEN kUncategorized
        ELSE LET last == CHOOSE h \in headings : \A g \in headings : g <= h
             IN  trim(headingMatch(trim(localContent[last])))

\* C17: every name is grouped under the section current at its first
\* occurrence, the most recent heading of level 2 to 4 scanned by then (the
\* line of the occurrence itself counted as scanned or not) or the default
\* section; later occurrences under other headings do not change that
C17_FirstOccurrenceFixesSection ==
    showExportModal =>
        \A name \in Range(detectedVariables) :
            occurrences(name) # {} =>
                LET first == SetMin(occurrences(name))
                IN  groupOf(name) \in {sectionAfter(first), sectionAfter(first - 1)}

\* the line at which the section first appears, 0 for the default section
firstAppearance(section) ==
    IF section = kUncategorized THEN 0
    ELSE SetMin({k \in DOMAIN localContent :
                    isHeadingLine(k) /\ sectionAfter(k) = section})

Example5Document == <<vlCompany, vlHeading, vlProduct>>

\* C18: the groups are the sections in order of first appearance, the default
\* section first; a name that precedes every heading is in Uncategorized; every
\* detected name is in exactly one group, the names of a group are in
\* first-seen order, and no group is empty; Example 5 gives Uncategorized with
\* CompanyName, then the heading's text with ProductName
C18_GroupsInOrderOfAppearance ==
    showExportModal =>
        LET text == joinLines(localContent)
        IN  /\ \A i, j \in DOMAIN groups :
                  i < j => firstAppearance(groups[i].section) < firstAppearance(groups[j].section)
            /\ \A name \in Range(detectedVariables) :
                  /\ Cardinality({<<i, k>> \in (DOMAIN groups) \X (1..Len(detectedVariables)) :
                                     /\ k \in DOMAIN groups[i].variables
                                     /\ groups[i].variables[k] = name}) = 1
                  /\ (/\ occurrences(name) # {}
                      /\ \A h \in 1..SetMin(occurrences(name)) : ~isHeadingLine(h))
                     => groupOf(name) = kUncategorized
            /\ \A i \in DOMAIN groups :
                  /\ groups[i].variables # <<>>
                  /\ Range(groups[i].variables) \subseteq Range(detectedVariables)
                  /\ \A k, l \in DOMAIN groups[i].variables :
                        k < l => firstOccurrence(text, groups[i].variables[k])
                                    < firstOccurrence(text, groups[i].variables[l])
            /\ localContent = Example5Document =>
                  groups = <<[section |-> kUncategorized,
                              variables |-> <<<<"C", "o", "m", "p", "a", "n", "y", "N", "a", "m", "e">>>>],
                             [section |-> <<"P", "r", "o", "d", "u", "c", "t">>,
                              variables |-> <<<<"P", "r", "o", "d", "u", "c", "t", "N", "a", "m", "e">>>>]>>

\* the modal is open on a document whose first section has no placeholder and
\* whose second section has one
C18_Witness ==
    /\ showExportModal
    /\ localContent = <<vlHeading, vlHeadingWithVariable, vlProduct>>
    /\ Len(groups) = 1
    /\ groups[1].section =
          <<"S", "t", "o", "r", "a", "g", "e", " ", "{", "{", "P", "r", "o", "d", "u", "c", "t", "N", "a", "m", "e", "}", "}">>

----------------------------------------------------------------------------
(* pdfDebugger: validateTableStructure.  An issue, in the code the string  *)
(* that names the line, the expected and the actual number of columns, is  *)
(* the record of the three numbers.                                        *)

\* c.trim() !== ''
isNonBlank(c) == trim(c) # <<>>

\* trimmed.split('|').filter(c => c.trim() !== '').length
countCells(trimmed) == Len(SelectSeq(splitPipe(trimmed), isNonBlank))

\* the body of the forEach callback for a line that starts with '|', on the
\* current table
validateLine(currentTable, trimmed, idx) ==
    LET cells == countCells(trimmed)
    IN  IF includes(trimmed, <<"-", "-", "-">>)
        THEN [currentTable EXCEPT !.headers = cells]
        ELSE [currentTable EXCEPT
                 !.rows    = @ + 1,
                 !.columns = IF @ = 0 THEN cells ELSE @,
                 !.issues  = IF currentTable.columns # 0 /\ cells # currentTable.columns
                             THEN Append(@, [line     |-> idx + 1,
                                             expected |-> currentTable.columns,
                                             actual   |-> cells])
                             ELSE @]

RECURSIVE validateFrom(_, _, _, _)
\* lines.forEach from index idx (0-based) on; currentTable is the last table
validateFrom(lines, idx, inTable, found) ==
    IF idx >= Len(lines) THEN found
    ELSE LET trimmed == trim(lines[idx + 1])
             opened  == IF inTable THEN found
                        ELSE Append(found, [start |-> idx, headers |-> 0, rows |-> 0,
                                            issues |-> <<>>, columns |-> 0])
         IN  IF startsWith(trimmed, <<"|">>)
             THEN validateFrom(lines, idx + 1, TRUE,
                               [opened EXCEPT ![Len(opened)] = validateLine(@, trimmed, idx)])
             ELSE IF inTable /\ trimmed = <<>>
             THEN validateFrom(lines, idx + 1, FALSE, found)
             ELSE validateFrom(lines, idx + 1, inTable, found)

validateTableStructure(lines) == validateFrom(lines, 0, FALSE, <<>>)

\* | A | B |
tlHeader == <<"|", " ", "A", " ", "|", " ", "B", " ", "|">>
\* | --- | --- |
tlSeparator ==
    <<"|", " ", "-", "-", "-", " ", "|", " ", "-", "-", "-", " ", "|">>
\* | --- |
tlNarrowSeparator == <<"|", " ", "-", "-", "-", " ", "|">>
\* | 1 | 2 |
tlRow == <<"|", " ", "1", " ", "|", " ", "2", " ", "|">>
\* | 1 |
tlNarrowRow == <<"|", " ", "1", " ", "|">>

ValidatorLines == {tlHeader, tlSeparator, tlNarrowSeparator, tlRow, tlNarrowRow, lnBlank}

InitValidate ==
    /\ content \in UNION {[1..n -> ValidatorLines] : n \in 1..MaxLines}
    /\ prevContent = content
    /\ lastOp = "none"
    /\ applied = 0
    /\ matches = <<>>
    /\ PdfIdle
    /\ WsIdle

\* validateTableStructure(markdown) on the text
ValidateTableStructure ==
    /\ lastOp = "none"
    /\ tables' = validateTableStructure(content)
    /\ lastOp' = "validateTableStructure"
    /\ UNCHANGED <<content, prevContent, applied, matches, pdfVars, wsVars, exportVars, llmVars>>

SpecValidate == InitValidate /\ [][ValidateTableStructure]_vars

\* the lines (1-based) of the table that starts at line start: the lines from
\* there to the next blank line that begin with '|'
linesOfTable(start) ==
    LET blanks == {b \in start..Len(content) : trim(content[b]) = <<>>}
        last   == IF blanks = {} THEN Len(content) ELSE SetMin(blanks) - 1
    IN  {i \in start..last : startsWith(trim(content[i]), <<"|">>)}

\* C21: each table found has an issue if and only if its header, separator
\* and data rows do not all have the same number of cells, and an issue gives
\* the 1-based number of a line of the table, the expected count and the
\* line's own, different count; the markdown is as it was
C21_MismatchesReportedExactly ==
    lastOp = "validateTableStructure" =>
        /\ content = prevContent
        /\ \A t \in DOMAIN tables :
              LET rows == linesOfTable(tables[t].start + 1)
              IN  /\ tables[t].issues # <<>> <=>
                        \E i, j \in rows :
                            countCells(trim(content[i])) # countCells(trim(content[j]))
                  /\ \A k \in DOMAIN tables[t].issues :
                        LET issue == tables[t].issues[k]
                        IN  /\ issue.line \in rows
                            /\ issue.actual = countCells(trim(content[issue.line]))
                            /\ issue.expected # issue.actual

----------------------------------------------------------------------------
(* ReportWorkspace: handleInsertTable, the controls of the table modal and *)
(* the editor.  Headers are other than __proto__ here.                     *)

\* value || '' in a template literal: the text of the value, '' for a falsy one
orEmpty(value) ==
    IF "num" \in DOMAIN value
    THEN IF value.num = 0 THEN <<>> ELSE toDecimal(value.num)
    ELSE value.str

RECURSIVE joinWith(_, _)
\* parts.join(sep)
joinWith(parts, sep) ==
    IF parts = <<>> THEN <<>>
    ELSE IF Len(parts) = 1 THEN parts[1]
    ELSE parts[1] \o sep \o joinWith(Tail(parts), sep)

\* `| ${cells.join(' | ')} |`
tableRow(cells) == <<"|", " ">> \o joinWith(cells, <<" ", "|", " ">>) \o <<" ", "|">>

RECURSIVE sortedIndices(_)
\* Array.from(selectedRowIndices).sort((a, b) => a - b)
sortedIndices(selected) ==
    IF selected = {} THEN <<>>
    ELSE <<SetMin(selected)>> \o sortedIndices(selected \ {SetMin(selected)})

RECURSIVE splitLines(_)
\* text.split('\n')
splitLines(text) ==
    LET nl == runEnd(text, 1, Range(text) \ {"\n"})
    IN  IF nl > Len(text) THEN <<text>>
        ELSE <<SubSeq(text, 1, nl - 1)>> \o splitLines(SubSeq(text, nl + 1, Len(text)))

\* the lines of `${headerRow}\n${separatorRow}\n${dataRows.join('\n')}`
markdownLines(headerCells, dataRows) ==
    <<tableRow(headerCells), tableRow([k \in DOMAIN headerCells |-> <<"-", "-", "-">>])>>
        \o (IF dataRows = <<>> THEN << <<>> >> ELSE dataRows)

\* the table of the template-driven branch: a target without a mapping, or
\* mapped to '', gives an empty cell
templateTable(config, grid, selected) ==
    LET rowIndices == sortedIndices(selected)
        cell(rowData, targetH) ==
            LET sourceCol == IF targetH \in DOMAIN config.columnMapping
                             THEN config.columnMapping[targetH] ELSE <<>>
            IN  IF sourceCol # <<>> /\ sourceCol \in DOMAIN rowData
                THEN orEmpty(rowData[sourceCol])
                ELSE <<>>
    IN  markdownLines(config.targetHeaders,
                      [k \in DOMAIN rowIndices |->
                          tableRow([t \in DOMAIN config.targetHeaders |->
                                      cell(grid.rows[rowIndices[k] + 1], config.targetHeaders[t])])])

\* the table of the manual branch
manualTable(config, grid, selected) ==
    LET rowIndices == sortedIndices(selected)
        cols    == config.selectedColumns
        renamed(c) == IF c \in DOMAIN config.headerRenames /\ config.headerRenames[c] # <<>>
                      THEN config.headerRenames[c] ELSE c
    IN  markdownLines([k \in DOMAIN cols |-> renamed(cols[k])],
                      [k \in DOMAIN rowIndices |->
                          tableRow([c \in DOMAIN cols |->
                                      orEmpty(grid.rows[rowIndices[k] + 1][cols[c]])])])

\* lines.splice(start, end - start, markdownTable) and the join, as lines
spliceLines(lines, start, end, table) ==
    LET from  == IF start > Len(lines) THEN Len(lines) ELSE start
        count == IF end - start > Len(lines) - from THEN Len(lines) - from
                 ELSE IF end - start < 0 THEN 0 ELSE end - start
    IN  SubSeq(lines, 1, from) \o table \o SubSeq(lines, from + count + 1, Len(lines))

\* the insert at the cursor, or at the end when no editor is mounted
insertAtCursor(lines, cursor, table) ==
    LET text == joinLines(lines)
        markdownTable == joinLines(table)
    IN  IF cursor = Null THEN splitLines(text \o <<"\n">> \o markdownTable)
        ELSE LET prefix == IF cursor.start > 0 /\ text[cursor.start] # "\n"
                           THEN <<"\n">> ELSE <<>>
             IN  splitLines(SubSeq(text, 1, cursor.start) \o prefix \o markdownTable
                                \o <<"\n">> \o SubSeq(text, cursor.end + 1, Len(text)))

\* the selections of the textarea the handler is run with
Cursors(lines) ==
    LET n == Len(joinLines(lines))
    IN  {[start |-> 0, end |-> 0], [start |-> n, end |-> n], [start |-> 0, end |-> n]}

\* the longest text, in lines, a table is inserted into
MaxInsertLines == 4

\* handleInsertTable writing the template's table with the mapping
\* smartMapColumns computes, whatever the modal shows
HandleInsertTableWithComputedMapping ==
    /\ showTableModal
    /\ Len(localContent) <= MaxInsertLines
    /\ \E cursor \in Cursors(localContent) \cup {Null} :
          LET computed == [tableConfig EXCEPT !.columnMapping =
                              smartMapColumns(tableConfig.targetHeaders, gridData.headers)]
          IN  localContent' =
                 IF tableConfig.mode = "template-driven"
                 THEN IF tableConfig.replaceRange # Null
                      THEN spliceLines(localContent, tableConfig.replaceRange.start,
                                       tableConfig.replaceRange.end,
                                       templateTable(computed, gridData, selectedRowIndices))
                      ELSE insertAtCursor(localContent, cursor,
                                          templateTable(computed, gridData, selectedRowIndices))
                 ELSE insertAtCursor(localContent, cursor,
                                     manualTable(tableConfig, gridData, selectedRowIndices))
    /\ showTableModal' = FALSE
    /\ UNCHANGED <<gridData, selectedRowIndices, tableConfig, normVars, pdfVars, exportVars, diagVars, llmVars>>

\* handleInsertTable, the modal's button; editorRef.current is null when the
\* textarea is not mounted
HandleInsertTable ==
    /\ showTableModal
    /\ Len(localContent) <= MaxInsertLines
    /\ \E cursor \in Cursors(localContent) \cup {Null} :
          localContent' =
              IF tableConfig.mode = "template-driven"
              THEN IF tableConfig.replaceRange # Null
                   THEN spliceLines(localContent, tableConfig.replaceRange.start,
                                    tableConfig.replaceRange.end,
                                    templateTable(tableConfig, gridData, selectedRowIndices))
                   ELSE insertAtCursor(localContent, cursor,
                                       templateTable(tableConfig, gridData, selectedRowIndices))
              ELSE insertAtCursor(localContent, cursor,
                                  manualTable(tableConfig, gridData, selectedRowIndices))
    /\ showTableModal' = FALSE
    /\ UNCHANGED <<gridData, selectedRowIndices, tableConfig, normVars, pdfVars, exportVars, diagVars, llmVars>>

\* the select of a template column: onChange with the option chosen
SetColumnMapping ==
    /\ showTableModal /\ tableConfig.mode = "template-driven"
    /\ \E t \in DOMAIN tableConfig.targetHeaders, option \in Range(gridData.headers) \cup {<<>>} :
          LET targetH == tableConfig.targetHeaders[t]
              mapping == tableConfig.columnMapping
          IN  /\ option # (IF targetH \in DOMAIN mapping THEN mapping[targetH] ELSE <<>>)
              /\ tableConfig' =
                    [tableConfig EXCEPT !.columnMapping =
                        [k \in DOMAIN mapping \cup {targetH} |->
                            IF k = targetH THEN option ELSE mapping[k]]]
    /\ UNCHANGED <<localContent, gridData, selectedRowIndices, showTableModal, normVars, pdfVars, exportVars, diagVars, llmVars>>

\* the checkbox of a source column in the manual modal
ToggleColumn ==
    /\ showTableModal /\ tableConfig.mode = "manual"
    /\ \E h \in DOMAIN gridData.headers :
          LET header == gridData.headers[h]
              isOther(c) == c # header
          IN  tableConfig' =
                 [tableConfig EXCEPT !.selectedColumns =
                     IF header \in Range(@) THEN SelectSeq(@, isOther)
                     ELSE Append(@, header)]
    /\ UNCHANGED <<localContent, gridData, selectedRowIndices, showTableModal, normVars, pdfVars, exportVars, diagVars, llmVars>>

\* the text field of a selected source column in the manual modal
RenameHeader ==
    /\ showTableModal /\ tableConfig.mode = "manual"
    /\ \E header \in Range(tableConfig.selectedColumns), value \in {<<>>, <<"X">>} :
          /\ header \in DOMAIN tableConfig.headerRenames
          /\ value # tableConfig.headerRenames[header]
          /\ tableConfig' = [tableConfig EXCEPT !.headerRenames[header] = value]
    /\ UNCHANGED <<localContent, gridData, selectedRowIndices, showTableModal, normVars, pdfVars, exportVars, diagVars, llmVars>>

\* | NO. | Name |
ilHeader ==
    <<"|", " ", "N", "O", ".", " ", "|", " ", "N", "a", "m", "e", " ", "|">>
\* | 9 | x |
ilRow == <<"|", " ", "9", " ", "|", " ", "x", " ", "|">>

\* the texts of the editor: a table at the top, a line above it, a line under
\* it, and no table
InsertDocuments ==
    {<<ilHeader, wlShortSeparator, ilRow>>,
     <<wlText, ilHeader, wlShortSeparator, ilRow>>,
     <<ilHeader, wlShortSeparator, ilRow, wlText>>,
     <<wlText>>}

\* the sheet: the number 0 and a text with a pipe among its values
insertSheet ==
    [headers |-> <<hNo, hInciName>>,
     rows    |-> <<[h \in {hNo, hInciName} |->
                      IF h = hNo THEN [num |-> 0] ELSE [str |-> <<"A", "q", "u", "a">>]],
                   [h \in {hNo, hInciName} |->
                      IF h = hNo THEN [str |-> <<"2">>] ELSE [str |-> <<"a", "|", "b">>]]>>]

\* the textarea's onChange: setLocalContent(e.target.value).  The modal has no
\* focus trap, so the textarea can be reached from the keyboard while it is open
EditContent ==
    /\ localContent' \in InsertDocuments \ {localContent}
    /\ UNCHANGED <<gridData, selectedRowIndices, tableConfig, showTableModal, normVars, pdfVars, exportVars, diagVars, llmVars>>

InitInsert ==
    /\ localContent \in InsertDocuments
    /\ gridData = insertSheet
    /\ selectedRowIndices = {}
    /\ tableConfig = InitialTableConfig
    /\ showTableModal = FALSE
    /\ ExportIdle
    /\ DiagIdle
    /\ LlmIdle
    /\ content = << <<>> >>
    /\ prevContent = << <<>> >>
    /\ lastOp = "none"
    /\ applied = 0
    /\ matches = <<>>
    /\ PdfIdle

NextInsert ==
    \/ ToggleRowSelection
    \/ InitTableModal
    \/ CancelTableModal
    \/ SetColumnMapping
    \/ ToggleColumn
    \/ RenameHeader
    \/ HandleInsertTable
    \/ EditContent

SpecInsert == InitInsert /\ [][NextInsert]_vars

\* the lines of part are consecutive lines of doc
containsLines(doc, part) ==
    \E k \in 0..(Len(doc) - Len(part)) : SubSeq(doc, k + 1, k + Len(part)) = part

\* the table the open modal stands for: its targets or columns, with the
\* mapping it displays
displayedTable ==
    IF tableConfig.mode = "template-driven"
    THEN templateTable(tableConfig, gridData, selectedRowIndices)
    ELSE manualTable(tableConfig, gridData, selectedRowIndices)

\* C22: the modal opens on the mapping computed from the document at that
\* moment and leaves the document as it is; while the modal is closed the
\* document changes by an edit only; and when the modal closes the document is
\* unchanged (Cancel) or holds the table for the mapping the modal displayed,
\* overrides included
C22_MappingShownBeforeApplied ==
    /\ [][(~showTableModal /\ showTableModal') =>
              /\ localContent' = localContent
              /\ LET existingTable == findTableInContent(localContent)
                 IN  IF existingTable # Null
                     THEN /\ tableConfig'.mode = "template-driven"
                          /\ tableConfig'.targetHeaders = existingTable.headers
                          /\ tableConfig'.columnMapping
                                = smartMapColumns(existingTable.headers, gridData.headers)
                     ELSE tableConfig'.mode = "manual"]_vars
    /\ [][(~showTableModal /\ localContent' # localContent) =>
              (localContent' \in InsertDocuments /\ ~showTableModal')]_vars
    /\ [][(showTableModal /\ ~showTableModal') =>
              \/ localContent' = localContent
              \/ containsLines(localContent', displayedTable)]_vars

\* a table has been written with both template columns mapped to the source
\* column 'no.', which only an override of the computed mapping gives
C22_Witness ==
    /\ ~showTableModal
    /\ localContent = <<ilHeader, wlShortSeparator, tableRow(<<<<"2">>, <<"2">>>>)>>

\* a step in which the insert button writes the template's table
templateInsertStep ==
    /\ showTableModal /\ ~showTableModal'
    /\ tableConfig.mode = "template-driven"
    /\ localContent' # localContent

\* the table the modal was opened on is still the first table of the document
rangeIsCurrent ==
    LET existingTable == findTableInContent(localContent)
    IN  /\ existingTable # Null
        /\ tableConfig.replaceRange # Null
        /\ existingTable.startLine = tableConfig.replaceRange.start
        /\ existingTable.endLine = tableConfig.replaceRange.end
        /\ existingTable.headers = tableConfig.targetHeaders

\* C27: when the insert replaces the table the modal was opened on, the header
\* row, the separator row and one row for each selected source row are written
\* with the cell count of the replaced table's header line
C27_WrittenTableHasEqualCellCounts ==
    [][(templateInsertStep /\ rangeIsCurrent) =>
          LET start == tableConfig.replaceRange.start
          IN  \A k \in 1..(2 + Cardinality(selectedRowIndices)) :
                 /\ start + k <= Len(localContent')
                 /\ cellCount(localContent'[start + k]) = cellCount(localContent[start + 1])]_vars

\* C29: a template-driven insert leaves the lines above and the lines below
\* the first table of the document, as it is at the insert, unchanged
C29_ReplacesFirstTableOfCurrentContent ==
    [][templateInsertStep =>
          LET existingTable == findTableInContent(localContent)
          IN  /\ existingTable # Null
              /\ LET above == existingTable.startLine
                     below == Len(localContent) - existingTable.endLine
                 IN  /\ Len(localContent') >= above + below
                     /\ SubSeq(localContent', 1, above) = SubSeq(localContent, 1, above)
                     /\ SubSeq(localContent', Len(localContent') - below + 1, Len(localContent'))
                           = SubSeq(localContent, existingTable.endLine + 1, Len(localContent))]_vars

\* the text of a cell value of the sheet
textOf(value) == IF "num" \in DOMAIN value THEN toDecimal(value.num) ELSE value.str

\* the data rows the claim expects: the selected rows in ascending order, each
\* target's cell the text of the row's value in the column mapped to it
expectedRows ==
    LET rowIndices == sortedIndices(selectedRowIndices)
        mapped(t) == /\ t \in DOMAIN tableConfig.columnMapping
                     /\ tableConfig.columnMapping[t] # <<>>
    IN  [k \in DOMAIN rowIndices |->
            tableRow([j \in DOMAIN tableConfig.targetHeaders |->
                        LET t == tableConfig.targetHeaders[j]
                        IN  IF mapped(t)
                            THEN textOf(gridData.rows[rowIndices[k] + 1][tableConfig.columnMapping[t]])
                            ELSE <<>>])]

\* C30: the document after a template-driven insert holds, as consecutive
\* lines, the expected rows
C30_CellsAreMappedSourceValues ==
    [][templateInsertStep => containsLines(localContent', expectedRows)]_vars

----------------------------------------------------------------------------
(* The conditions of the Redundant-Header Remover, checked under            *)
(* SpecExamples.                                                            *)

\* the maximal runs of characters of chars in s, as pairs of first and last index
runsIn(s, chars) ==
    {r \in (1..Len(s)) \X (1..Len(s)) :
        /\ r[1] <= r[2]
        /\ \A i \in r[1]..r[2] : s[i] \in chars
        /\ (r[1] = 1 \/ s[r[1] - 1] \notin chars)
        /\ (r[2] = Len(s) \/ s[r[2] + 1] \notin chars)}

\* the number of keyword tokens: words that are NO, Weight, INCI, Name, CAS or
\* Ingredient in any case ('NO.' is the word NO before a dot)
keywordTokens(s) ==
    Cardinality({r \in runsIn(s, WordChars) :
                    toLowerCase(SubSeq(s, r[1], r[2])) \in ColumnWords})

\* the number of whitespace-separated tokens
tokenCount(s) == Cardinality(runsIn(s, {c \in Range(s) : c \notin WhiteSpace}))

\* all the conditions of the claim on line i of lines; the next line is read
\* without its indentation
mayBeDeleted(lines, i) ==
    LET line == lines[i]
    IN  /\ i + 1 <= Len(lines)
        /\ startsWith(trim(lines[i + 1]), <<"|">>)
        /\ ~startsWith(line, <<"|">>)
        /\ ~startsWith(line, <<"#">>)
        /\ ~startsWith(line, <<"*", "*">>)
        /\ \E k \in DOMAIN line : line[k] \notin WhiteSpace
        /\ line # lnFence
        /\ keywordTokens(line) >= 2
        /\ tokenCount(line) <= 8
        /\ "|" \notin Range(line)
        /\ \A k \in DOMAIN line :
              line[k] \in UpperLetters \cup Digits \cup WhiteSpace
                            \cup {".", "%", "(", ")", ":", "-"}

RECURSIVE withoutDeletable(_, _)
\* the lines from i on that fail a condition, unchanged and in order
withoutDeletable(lines, i) ==
    IF i > Len(lines) THEN <<>>
    ELSE (IF mayBeDeleted(lines, i) THEN <<>> ELSE <<lines[i]>>)
         \o withoutDeletable(lines, i + 1)

columnNames(line) ==
    LET parts == splitPipe(trim(line))
    IN  SelectSeq([k \in DOMAIN parts |-> trim(parts[k])], LAMBDA c : c # <<>>)

\* lines[i] and lines[i + 1] exist and are the header row and the separator row
\* of a table
isTableHead(lines, i) ==
    /\ i + 1 <= Len(lines)
    /\ startsWith(trim(lines[i]), <<"|">>) /\ endsWith(trim(lines[i]), <<"|">>)
    /\ ~includes(lines[i], <<"-", "-", "-">>)
    /\ startsWith(trim(lines[i + 1]), <<"|">>) /\ endsWith(trim(lines[i + 1]), <<"|">>)
    /\ includes(lines[i + 1], <<"-", "-", "-">>)

\* C24: a line the remover deletes stands directly above the header row of a
\* table, which has a separator row under it, and is that header's column
\* names, in any case, separated by blanks
C24_DeletedLineDuplicatesHeader ==
    lastOp = "removeRedundantTableHeaders" =>
        \A i \in DOMAIN prevContent :
            isRedundantHeader(prevContent, i) =>
                /\ isTableHead(prevContent, i + 1)
                /\ toLowerCase(trim(prevContent[i]))
                      = toLowerCase(joinWith(columnNames(prevContent[i + 1]), <<" ">>))

----------------------------------------------------------------------------
(* The Section-Heading Splitter, checked under SpecExamples.                *)

\* The lines the claim allows in place of `line`.  A heading is a line whose
\* trimmed text starts with ## Section N; its trailing label is the one the
\* heading expression finds.  For a heading whose label has nothing after it
\* the claim can be read two ways: the line passes through, or it is split
\* without a content line.
expectedSectionLines(line) ==
    LET trimmed == trim(line)
        j       == sectionSplitPoint(trimmed)
        rest    == trim(SubSeq(trimmed, j + 1, Len(trimmed)))
        label   == SubSeq(rest, 1, firstColon(rest) - 1)
        prose   == trimStart(SubSeq(rest, firstColon(rest) + 1, Len(rest)))
        heading == SubSeq(trimmed, 1, j)
        known   == {l \in SubLabels : startsWith(trimmed, l \o <<":">>)}
    IN  IF sectionHeadEnd(trimmed) > 0
        THEN IF j = 0 THEN {<<line>>}
             ELSE IF prose # <<>> THEN {<<heading, <<>>, boldLabel(label), prose>>}
             ELSE {<<line>>, <<heading, <<>>, boldLabel(label)>>}
        ELSE IF known # {}
        THEN LET l       == CHOOSE k \in known : TRUE
                 after == trimStart(SubSeq(trimmed, Len(l) + 2, Len(trimmed)))
             IN  {<<boldLabel(l)>> \o (IF after # <<>> THEN <<after>> ELSE <<>>)}
        ELSE {<<line>>}

RECURSIVE expectedSectionTexts(_, _)
\* the texts the claim allows for the lines from i on
expectedSectionTexts(lines, i) ==
    IF i > Len(lines) THEN {<<>>}
    ELSE {a \o b : a \in expectedSectionLines(lines[i]),
                   b \in expectedSectionTexts(lines, i + 1)}

\* C25: normalizeSectionFormatting replaces a heading line with a trailing
\* 'Label: prose' by the heading alone, a blank line, the bolded label and
\* the prose, an unbolded line that starts with a known sub-label and ':' by
\* the bolded label and, if there is content, the content, and leaves every
\* other line as it is
C25_SectionLinesReplacedAsStated ==
    lastOp = "normalizeSectionFormatting" =>
        content \in expectedSectionTexts(prevContent, 1)

----------------------------------------------------------------------------
(* The line-break threshold of extractTextFromPdf, checked under SpecPdf.   *)

\* the gaps between consecutive values of the sorted Y values of the items
consecutiveGaps(its) ==
    LET ys == {its[k].y[1] : k \in DOMAIN its}
    IN  {p[1] - p[2] : p \in {q \in ys \X ys :
                                 q[2] < q[1] /\ ~\E c \in ys : q[2] < c /\ c < q[1]}}

\* the smallest gap above the noise floor of 0.1, 2.5 if there is none,
\* clamped to [1.5, 3.5]
dynamicThreshold(its) ==
    LET above    == {g \in consecutiveGaps(its) : g > 10}
        smallest == IF above = {} THEN 250 ELSE SetMin(above)
    IN  IF smallest < 150 THEN 150 ELSE IF smallest > 350 THEN 350 ELSE smallest

RECURSIVE lineCount(_, _, _, _)
\* the number of lines from item k on, when a new line starts exactly at an
\* item whose Y differs from the line's reference Y ref by more than t
lineCount(its, k, ref, t) ==
    IF k > Len(its) THEN 0
    ELSE LET gap == its[k].y[1] - ref
         IN  IF (IF gap >= 0 THEN gap ELSE 0 - gap) > t
             THEN 1 + lineCount(its, k + 1, its[k].y[1], t)
             ELSE lineCount(its, k + 1, ref, t)

\* C26: a page whose fragments all have a number as Y is broken into lines
\* with the page's own threshold: as many lines as the walk over the sorted
\* fragments starts with that threshold
C26_DynamicLineThreshold ==
    LET its == sortItems(pageItems(lastPage))
    IN  (pageNum > 1 /\ its # <<>> /\ \A k \in DOMAIN its : its[k].y # NaN) =>
            Len(pageLines) = 1 + lineCount(its, 2, its[1].y[1], dynamicThreshold(its))

----------------------------------------------------------------------------
(* The LLM settings store: the module variable inMemoryApiKey and the two   *)
(* items of sessionStorage.  sessionConfig is the item CONFIG_KEY, as the   *)
(* object its JSON text parses to (the fields are booleans and strings,     *)
(* which JSON.stringify and JSON.parse give back as they are), and          *)
(* sessionApiKey the item API_KEY_KEY, [value |-> key]; Null is no item.    *)
(* Every call of sessionStorage may throw.  lastSave is the argument of the *)
(* most recent saveLLMSettings and llmReturned what getLLMSettings returned *)
(* last.                                                                    *)

ApiKeys == {<<>>, <<"k", "1">>, <<"k", "2">>}

\* the settings the panel can hand over; of the fields other than apiKey and
\* rememberSession, model stands for all
LLMSettingsValues ==
    [apiKey : ApiKeys, rememberSession : BOOLEAN, model : {"gpt-4o-mini", "local"}]

defaultSettings == [apiKey |-> <<>>, rememberSession |-> FALSE, model |-> "gpt-4o-mini"]

\* const { apiKey, ...rest } = settings
restOf(settings) == [f \in DOMAIN settings \ {"apiKey"} |-> settings[f]]

\* saveLLMSettings(settings); throwAt is the storage call that throws, 0 for none
SaveLLMSettings ==
    \E settings \in LLMSettingsValues, throwAt \in 0..2 :
        /\ inMemoryApiKey' = settings.apiKey
        /\ sessionConfig' = IF throwAt = 1 THEN sessionConfig ELSE restOf(settings)
        /\ sessionApiKey' =
              IF throwAt \in {1, 2} THEN sessionApiKey
              ELSE IF settings.rememberSession /\ settings.apiKey # <<>>
              THEN [value |-> settings.apiKey]
              ELSE Null
        /\ lastSave' = settings
        /\ lastOp' = "saveLLMSettings"
        /\ UNCHANGED <<llmReturned, content, prevContent, applied, matches,
                       pdfVars, wsVars, exportVars, diagVars>>

\* clearLLMSettings()
ClearLLMSettings ==
    \E throwAt \in 0..2 :
        /\ inMemoryApiKey' = <<>>
        /\ sessionApiKey' = IF throwAt = 1 THEN sessionApiKey ELSE Null
        /\ sessionConfig' = IF throwAt \in {1, 2} THEN sessionConfig ELSE Null
        /\ lastOp' = "clearLLMSettings"
        /\ UNCHANGED <<lastSave, llmReturned, content, prevContent, applied, matches,
                       pdfVars, wsVars, exportVars, diagVars>>

\* getLLMSettings(): readSessionJson catches what its getItem throws, the
\* getItem of the API key is outside any try
GetLLMSettings ==
    \E readThrows \in BOOLEAN, getThrows \in BOOLEAN :
        LET stored == IF readThrows \/ sessionConfig = Null THEN <<>> ELSE sessionConfig
            rememberSession == "rememberSession" \in DOMAIN stored /\ stored.rememberSession
            apiKey == IF rememberSession
                      THEN IF sessionApiKey = Null THEN <<>> ELSE sessionApiKey.value
                      ELSE inMemoryApiKey
            merged == [f \in DOMAIN defaultSettings |->
                          IF f \in DOMAIN stored THEN stored[f] ELSE defaultSettings[f]]
        IN  /\ llmReturned' = IF rememberSession /\ getThrows
                              THEN [threw |-> TRUE]
                              ELSE [merged EXCEPT !.apiKey = apiKey]
            /\ lastOp' = "getLLMSettings"
            /\ UNCHANGED <<inMemoryApiKey, sessionConfig, sessionApiKey, lastSave,
                           content, prevContent, applied, matches,
                           pdfVars, wsVars, exportVars, diagVars>>

\* a new page in a new session
InitLlm ==
    /\ content = << <<>> >>
    /\ prevContent = << <<>> >>
    /\ lastOp = "none"
    /\ applied = 0
    /\ matches = <<>>
    /\ PdfIdle
    /\ WsIdle

NextLlm == SaveLLMSettings \/ ClearLLMSettings \/ GetLLMSettings

SpecLlm == InitLlm /\ [][NextLlm]_vars

\* the API key is in sessionStorage only if the most recent save had
\* rememberSession and a key
keyStoredOnlyIfRemembered ==
    sessionApiKey # Null =>
        /\ lastSave # Null
        /\ lastSave.rememberSession
        /\ lastSave.apiKey # <<>>

\* the stored settings have no field apiKey
configWithoutKey == sessionConfig # Null => "apiKey" \notin DOMAIN sessionConfig

\* a getLLMSettings that follows a clearLLMSettings returns an empty API key,
\* if it returns
emptyKeyAfterClear ==
    (lastOp = "clearLLMSettings" /\ lastOp' = "getLLMSettings") =>
        \/ llmReturned' = [threw |-> TRUE]
        \/ llmReturned'.apiKey = <<>>

\* C28: whatever calls of saveLLMSettings, getLLMSettings and clearLLMSettings
\* have been made and whichever storage calls threw, the API key is in
\* sessionStorage only if the most recent save had rememberSession and a
\* non-empty key, the stored settings never hold the key, and getLLMSettings
\* after clearLLMSettings returns an empty key
C28_KeyKeptOnlyAsRequested ==
    /\ [](keyStoredOnlyIfRemembered /\ configWithoutKey)
    /\ [][emptyKeyAfterClear]_vars

====
